---- MODULE Spec2Model ----
(***************************************************************************)
(* A model of the indexing engine of the search-engine project:            *)
(* InvertedIndex (src/src/indexer/inverted_index.py) with its text         *)
(* preprocessing, add_document, the frequency accessors, boolean search,   *)
(* get_statistics and the JSON snapshot save_index / load_index.           *)
(*                                                                         *)
(* A text is modelled as the sequence of its whitespace-separated words,   *)
(* a Python dict as a function whose DOMAIN is the key set, a Python list  *)
(* as a sequence and a Python set as a set.                                *)
(*                                                                         *)
(* On top of the index: TFIDFCalculator (src/src/indexer/                  *)
(* tfidf_calculator.py), CosineSimilarity (cosine_similarity.py), the      *)
(* query validator (src/src/processor/query_validator.py), the results     *)
(* generator (results_generator.py) and the /search handler (app.py).      *)
(* Floating-point weights and scores are fixed-point numbers in            *)
(* thousandths; where the order of a dict's keys matters, the dict is a    *)
(* sequence of its entries in insertion order.                             *)
(***************************************************************************)
EXTENDS Integers, Sequences, FiniteSets, TLC

VARIABLES
    index,              \* self.index: term -> {doc_id: [positions]}
    document_metadata,  \* self.document_metadata: doc_id -> {url, title, word_count, token_count}
    vocabulary,         \* self.vocabulary: set of terms
    total_documents,    \* self.total_documents
    file,               \* the snapshot file written by save_index (NoFile before the first save)
    results,            \* the list returned by the call just made, when it is search
    stats,              \* the dict returned by the call just made, when it is get_statistics
    last,               \* the call just made: its name, its arguments and whether it raised
    passed,             \* history: the document ids passed to add_document so far
    indexed,            \* history: the ids of the add_document calls whose text had terms
    accepted_calls,     \* history: the number of add_document calls whose text had terms
    saved,              \* history: the in-memory state at the moment of the last save_index
    key_order,          \* the keys of self.document_metadata in the dict's (insertion) order
    file_key_order,     \* the keys of the snapshot file's "document_metadata" object, in order
    term_to_index,      \* TFIDFCalculator.term_to_index: term -> dimension (0-based)
    document_vectors,   \* TFIDFCalculator.document_vectors, as the list of its items
    expansion_cache,    \* EnhancedQueryValidator.expansion_cache: cleaned query -> expansion
    returned,           \* the value returned by the call just made, for the calls below
    rebuild,            \* the load_index or calculate_tfidf call that is running, if any
    vector_file,        \* the file written by save_tfidf_vectors (NoFile before the first save)
    index_postdates     \* history: the snapshot file was written after the vector file

vars == <<index, document_metadata, vocabulary, total_documents, file, results,
          stats, last, passed, indexed, accepted_calls, saved, key_order,
          file_key_order, term_to_index, document_vectors, expansion_cache,
          returned, rebuild, vector_file, index_postdates>>

state == <<index, document_metadata, vocabulary, total_documents>>

history == <<passed, indexed, accepted_calls>>

\* the state of the objects built on top of the index, and the rebuild that is running
query_side == <<term_to_index, document_vectors, expansion_cache, rebuild, vector_file>>

----------------------------------------------------------------------------
(* Bounds of the model. *)

\* longest document text, in words
MaxTextLen == 2
\* add_document calls that index a document, per behaviour (caps total_documents)
MaxDocuments == 2
\* longest query, in words
MaxQueryLen == 3
\* largest top_k passed to search
MaxTopK == 2
\* the same two caps for the behaviours that also save and load snapshots
MaxSnapshotTextLen == 1
MaxSnapshotDocuments == 2
\* the same two caps, and the longest query, for the behaviours that build vectors
MaxVectorTextLen == 1
MaxVectorDocuments == 2
MaxVectorQueryLen == 2

MaxSuggestions == 2

MaxSnippetLength == 6

\* the longest vector, and the largest component, passed to calculate_similarity
MaxSimilarityLen == 2
MaxComponent == 2

\* the most words of a snippet that is highlighted
MaxHighlightWords == 2

(* Program constants. *)

\* config.get('indexer.min_word_length', 2)
MinWordLength == 2
\* config.get('indexer.max_word_length', 25)
MaxWordLength == 25

----------------------------------------------------------------------------
(* The inputs. *)

\* document ids, in ascending (string) order
DocIdOrder == <<"doc1", "doc2">>

DocIds == {DocIdOrder[i] : i \in 1..Len(DocIdOrder)}

\* the words a text is made of: one that lowercases to the term "search", one
\* that stems to "engin", a stopword, a one-letter word and a word that is not
\* alphanumeric
Words == {"Search", "engines", "the", "x", "e-mail"}

Terms == {"search", "engin"}

RECURSIVE SeqsUpTo(_, _)
SeqsUpTo(S, n) ==
    IF n = 0 THEN {<<>>}
    ELSE LET shorter == SeqsUpTo(S, n - 1)
         IN  shorter \cup {Append(s, x) : s \in {t \in shorter : Len(t) = n - 1}, x \in S}

\* Python's None and {} are both falsy in `if metadata`; both are the empty dict here
NoMetadata == [k \in {} |-> ""]

\* the metadata each document is added with: one with a title and no url, one with
\* no metadata at all
MetadataOf == [d \in DocIds |-> IF d = DocIdOrder[1] THEN [title |-> "Test"] ELSE NoMetadata]

\* the four sections of a snapshot
Sections == {"index", "document_metadata", "vocabulary", "total_documents"}

NoFile == [k \in {} |-> 0]

EmptyIndex == [t \in {} |-> [d \in {} |-> <<>>]]

EmptyMetadataTable == [d \in {} |-> [url |-> "", title |-> "", word_count |-> 0, token_count |-> 0]]

NoStats == [total_documents |-> 0, vocabulary_size |-> 0, total_terms |-> 0,
            average_document_length |-> <<0, 1>>]

NoCall == [op |-> "init", id |-> "", tokens |-> <<>>, blank |-> FALSE, held |-> FALSE,
           top_k |-> 0, ok |-> TRUE, replaced |-> FALSE]

\* Python's None
None == [none |-> TRUE]

\* {}: a dict without keys
EmptyDict == [k \in {} |-> 0]

\* no load_index or calculate_tfidf call is running
Idle == [pc |-> "idle"]

----------------------------------------------------------------------------
(* preprocess_text *)

\* text.lower()
Lower(w) == IF w = "Search" THEN "search" ELSE w

\* word_tokenize(text.lower()): one token per word
word_tokenize(text) == [i \in 1..Len(text) |-> Lower(text[i])]

\* token.isalnum()
isalnum(token) == token # "e-mail"

\* stopwords.words('english')
stop_words == {"the"}

\* PorterStemmer().stem
stem(token) == IF token = "engines" THEN "engin" ELSE token

\* the filter of the token loop
KeepToken(token) ==
    /\ Len(token) >= MinWordLength
    /\ Len(token) <= MaxWordLength
    /\ isalnum(token)
    /\ token \notin stop_words

preprocess_text(text) ==
    IF text = <<>> THEN <<>>
    ELSE LET kept == SelectSeq(word_tokenize(text), KeepToken)
         IN  [i \in 1..Len(kept) |-> stem(kept[i])]

----------------------------------------------------------------------------
(* add_document *)

\* the two early returns: `if not content` and `if not tokens`
IsSkipped_NoTokenCheck(content, tokens) == content = <<>>

IsSkipped(content, tokens) == content = <<>> \/ tokens = <<>>

\* term_positions: term -> the positions (0-based) at which it occurs
term_positions(tokens) ==
    [t \in {tokens[i] : i \in 1..Len(tokens)} |->
        LET at == SelectSeq([i \in 1..Len(tokens) |-> i], LAMBDA i : tokens[i] = t)
        IN  [k \in 1..Len(at) |-> at[k] - 1]]

\* self.document_metadata[document_id] = {...}
StoreMetadata_ResetsTable(table, document_id, tokens, metadata) ==
    [d \in {document_id} |->
        [url         |-> IF "url" \in DOMAIN metadata THEN metadata["url"] ELSE "",
         title       |-> IF "title" \in DOMAIN metadata THEN metadata["title"] ELSE "",
         word_count  |-> Len(tokens),
         token_count |-> Len(tokens)]]

StoreMetadata(table, document_id, tokens, metadata) ==
    [d \in DOMAIN table \cup {document_id} |->
        IF d = document_id
        THEN [url         |-> IF "url" \in DOMAIN metadata THEN metadata["url"] ELSE "",
              title       |-> IF "title" \in DOMAIN metadata THEN metadata["title"] ELSE "",
              word_count  |-> Len(tokens),
              token_count |-> Len(tokens)]
        ELSE table[d]]

\* for term, positions in term_positions.items(): self.index[term][document_id] = positions
StorePostings(idx, document_id, tokens) ==
    LET tp == term_positions(tokens)
    IN  [t \in DOMAIN idx \cup DOMAIN tp |->
            IF t \in DOMAIN tp
            THEN LET old == IF t \in DOMAIN idx THEN idx[t] ELSE [d \in {} |-> <<>>]
                 IN  [d \in DOMAIN old \cup {document_id} |->
                        IF d = document_id THEN tp[t] ELSE old[d]]
            ELSE idx[t]]

\* self.vocabulary.add(term), for every term of the document
StoreVocabulary(vocab, tokens) == vocab \cup {tokens[i] : i \in 1..Len(tokens)}

\* self.total_documents += 1
IncrementTotal_OnlyNewIds(total, table, document_id) ==
    IF document_id \in DOMAIN table THEN total ELSE total + 1

IncrementTotal(total, table, document_id) == total + 1

\* the place of document_id among the keys of self.document_metadata: a key that is
\* assigned again keeps its place, a new key goes last
StoreKey(keys, document_id) ==
    IF \E i \in 1..Len(keys) : keys[i] = document_id THEN keys ELSE Append(keys, document_id)

add_document(document_id, content, metadata) ==
    LET tokens == preprocess_text(content)
    IN  /\ passed' = passed \cup {document_id}
        /\ indexed' = IF tokens = <<>> THEN indexed ELSE indexed \cup {document_id}
        /\ accepted_calls' = IF tokens = <<>> THEN accepted_calls ELSE accepted_calls + 1
        /\ last' = [NoCall EXCEPT !.op = "add_document", !.id = document_id,
                                  !.tokens = tokens, !.blank = (content = <<>>),
                                  !.held = (document_id \in DOMAIN document_metadata)]
        /\ results' = <<>>
        /\ stats' = NoStats
        /\ returned' = None
        /\ UNCHANGED <<file, saved, index_postdates, file_key_order, query_side>>
        /\ IF IsSkipped(content, tokens)
           THEN UNCHANGED <<state, key_order>>
           ELSE /\ document_metadata' = StoreMetadata(document_metadata, document_id, tokens, metadata)
                /\ key_order' = StoreKey(key_order, document_id)
                /\ index' = StorePostings(index, document_id, tokens)
                /\ vocabulary' = StoreVocabulary(vocabulary, tokens)
                /\ total_documents' = IncrementTotal(total_documents, document_metadata, document_id)

----------------------------------------------------------------------------
(* The frequency accessors and get_statistics *)

\* len(self.index.get(term, {}))
get_document_frequency(term) ==
    IF term \in DOMAIN index THEN Cardinality(DOMAIN index[term]) ELSE 0

\* len(self.index.get(term, {}).get(document_id, []))
get_term_frequency(term, document_id) ==
    IF term \in DOMAIN index /\ document_id \in DOMAIN index[term]
    THEN Len(index[term][document_id])
    ELSE 0

RECURSIVE SumOver(_, _)
SumOver(f, S) ==
    IF S = {} THEN 0
    ELSE LET x == CHOOSE y \in S : TRUE IN f[x] + SumOver(f, S \ {x})

Max(a, b) == IF a >= b THEN a ELSE b

\* the dict get_statistics returns; the average is the fraction <<numerator, denominator>>
StatisticsOf(idx, table, vocab, total) ==
    [total_documents |-> total,
     vocabulary_size |-> Cardinality(vocab),
     total_terms     |-> SumOver([t \in DOMAIN idx |-> Cardinality(DOMAIN idx[t])], DOMAIN idx),
     average_document_length |->
        <<SumOver([d \in DOMAIN table |-> table[d].word_count], DOMAIN table), Max(1, total)>>]

get_statistics ==
    /\ stats' = StatisticsOf(index, document_metadata, vocabulary, total_documents)
    /\ last' = [NoCall EXCEPT !.op = "get_statistics"]
    /\ results' = <<>>
    /\ returned' = None
    /\ UNCHANGED <<state, file, saved, index_postdates, history, key_order, file_key_order, query_side>>

----------------------------------------------------------------------------
(* search *)

\* the orders in which a Python set can be iterated: every arrangement of it
IterationOrders(S) ==
    {f \in [1..Cardinality(S) -> S] : \A i, j \in 1..Cardinality(S) : f[i] = f[j] => i = j}

\* the candidate loop: `if term in self.index`, then take the term's documents when
\* relevant_docs is (still, or again) empty and intersect with them otherwise
RECURSIVE RelevantFrom(_, _, _)
RelevantFrom(idx, query_terms, relevant_docs) ==
    IF query_terms = <<>> THEN relevant_docs
    ELSE LET term == Head(query_terms)
             next == IF term \in DOMAIN idx
                     THEN IF relevant_docs = {}
                          THEN DOMAIN idx[term]
                          ELSE relevant_docs \cap DOMAIN idx[term]
                     ELSE relevant_docs
         IN  RelevantFrom(idx, Tail(query_terms), next)

RelevantDocs(idx, query_terms) == RelevantFrom(idx, query_terms, {})

\* sum(self.get_term_frequency(term, doc_id) for term in query_terms)
RECURSIVE ScoreOf(_, _)
ScoreOf(query_terms, doc_id) ==
    IF query_terms = <<>> THEN 0
    ELSE get_term_frequency(Head(query_terms), doc_id) + ScoreOf(Tail(query_terms), doc_id)

\* self.document_metadata.get(doc_id, {})
StoredMetadata(doc_id) ==
    IF doc_id \in DOMAIN document_metadata THEN document_metadata[doc_id] ELSE NoMetadata

\* results.sort(key=lambda x: x['score'], reverse=True): a stable sort, so entries of
\* equal score keep the order in which they were appended
RECURSIVE InsertByScore(_, _)
InsertByScore(sorted, entry) ==
    IF sorted = <<>> THEN <<entry>>
    ELSE IF Head(sorted).score >= entry.score
         THEN <<Head(sorted)>> \o InsertByScore(Tail(sorted), entry)
         ELSE <<entry>> \o sorted

RECURSIVE SortByScore(_)
SortByScore(entries) ==
    IF entries = <<>> THEN <<>>
    ELSE InsertByScore(SortByScore(SubSeq(entries, 1, Len(entries) - 1)), entries[Len(entries)])

\* results[:top_k], for top_k >= 0
Truncate(entries, top_k) == SubSeq(entries, 1, IF Len(entries) < top_k THEN Len(entries) ELSE top_k)

\* the list search returns when it iterates relevant_docs in the order `order`
SearchResults(query_terms, top_k, order) ==
    IF query_terms = <<>> THEN <<>>
    ELSE Truncate(SortByScore([i \in 1..Len(order) |->
                      [document_id |-> order[i],
                       score       |-> ScoreOf(query_terms, order[i]),
                       metadata    |-> StoredMetadata(order[i])]]), top_k)

search(query, top_k, order) ==
    LET query_terms == preprocess_text(query)
    IN  /\ results' = SearchResults(query_terms, top_k, order)
        /\ last' = [NoCall EXCEPT !.op = "search", !.tokens = query_terms, !.top_k = top_k]
        /\ stats' = NoStats
        /\ returned' = None
        /\ UNCHANGED <<state, file, saved, index_postdates, history, key_order, file_key_order, query_side>>

----------------------------------------------------------------------------
(* save_index and load_index *)

StateRecord(idx, table, vocab, total) ==
    [index |-> idx, document_metadata |-> table, vocabulary |-> vocab, total_documents |-> total]

\* json.dump(index_data): the vocabulary set is written as the list list(self.vocabulary),
\* whose order is the set's iteration order
save_index(vocabulary_list) ==
    /\ file' = StateRecord(index, document_metadata, vocabulary_list, total_documents)
    /\ saved' = StateRecord(index, document_metadata, vocabulary, total_documents)
    /\ last' = [NoCall EXCEPT !.op = "save_index"]
    /\ results' = <<>>
    /\ stats' = NoStats
    /\ returned' = None
    /\ file_key_order' = key_order
    /\ index_postdates' = TRUE
    /\ UNCHANGED <<state, history, key_order, query_side>>

\* the JSON object at filepath: the snapshot save_index wrote, or a structurally
\* incomplete copy of it that lacks the sections `missing`
SnapshotLacking(missing) == [s \in DOMAIN file \ missing |-> file[s]]

\* set(index_data['vocabulary'])
SetOf(list) == {list[i] : i \in 1..Len(list)}

\* the assignments of load_index, in the order of the code, up to the first section
\* that index_data lacks (a KeyError, logged and raised again); `old` is the state
\* before the call and "ok" says that the call returned
LoadedState_KeepsOldVocabulary(old, index_data) ==
    IF Sections \subseteq DOMAIN index_data
    THEN [index |-> index_data["index"],
          document_metadata |-> index_data["document_metadata"],
          vocabulary |-> old.vocabulary \cup SetOf(index_data["vocabulary"]),
          total_documents |-> index_data["total_documents"],
          ok |-> TRUE]
    ELSE [index |-> old.index, document_metadata |-> old.document_metadata,
          vocabulary |-> old.vocabulary, total_documents |-> old.total_documents, ok |-> FALSE]

LoadedState(old, index_data) ==
    LET s0 == [index |-> EmptyIndex, document_metadata |-> old.document_metadata,
               vocabulary |-> old.vocabulary, total_documents |-> old.total_documents,
               ok |-> FALSE]
    IN  IF "index" \notin DOMAIN index_data THEN s0
        ELSE LET s1 == [s0 EXCEPT !.index = index_data["index"]]
             IN  IF "document_metadata" \notin DOMAIN index_data THEN s1
                 ELSE LET s2 == [s1 EXCEPT !.document_metadata = index_data["document_metadata"]]
                      IN  IF "vocabulary" \notin DOMAIN index_data THEN s2
                          ELSE LET s3 == [s2 EXCEPT !.vocabulary = SetOf(index_data["vocabulary"])]
                               IN  IF "total_documents" \notin DOMAIN index_data THEN s3
                                   ELSE [s3 EXCEPT !.total_documents = index_data["total_documents"],
                                                   !.ok = TRUE]

load_index(missing) ==
    LET old == StateRecord(index, document_metadata, vocabulary, total_documents)
        new == LoadedState(old, SnapshotLacking(missing))
    IN  /\ results' = <<>>
        /\ stats' = NoStats
        /\ returned' = None
        /\ UNCHANGED <<file, saved, index_postdates, history, file_key_order, query_side>>
        /\ IF file = NoFile
           THEN \* open() raises FileNotFoundError before anything is assigned
                /\ last' = [NoCall EXCEPT !.op = "load_index", !.ok = FALSE]
                /\ UNCHANGED <<state, key_order>>
           ELSE /\ key_order' = IF {"index", "document_metadata"} \subseteq DOMAIN file \ missing
                                THEN file_key_order
                                ELSE key_order
                /\ last' = [NoCall EXCEPT !.op = "load_index", !.ok = new.ok,
                                          !.replaced = (total_documents > 0 /\ old # saved)]
                /\ index' = new.index
                /\ document_metadata' = new.document_metadata
                /\ vocabulary' = new.vocabulary
                /\ total_documents' = new.total_documents

----------------------------------------------------------------------------
(* TFIDFCalculator *)

\* np.log(k) for k = 1, 2, ..., 8, in thousandths
LnMilli == <<0, 693, 1099, 1386, 1609, 1792, 1946, 2079>>

\* np.log((self.index.total_documents + 1) / (doc_freq + 1)) + 1, in thousandths
idf(total, doc_freq) == LnMilli[total + 1] - LnMilli[doc_freq + 1] + 1000

\* {term: idx for idx, term in enumerate(self.index.vocabulary)}, the set being
\* iterated in the order `order`
TermToIndex(order) ==
    [t \in SetOf(order) |-> (CHOOSE i \in 1..Len(order) : order[i] = t) - 1]

\* the vector of one document: tf * idf at the dimension of each of its terms
TfidfVector(doc_id, mapping, vocabulary_size) ==
    [i \in 1..vocabulary_size |->
        LET here == {t \in DOMAIN mapping :
                        /\ mapping[t] = i - 1
                        /\ t \in DOMAIN index
                        /\ doc_id \in DOMAIN index[t]}
        IN  IF here = {} THEN 0
            ELSE LET term == CHOOSE t \in here : TRUE
                     doc_word_count == document_metadata[doc_id].word_count
                 IN  (Len(index[term][doc_id])
                        * idf(total_documents, Cardinality(DOMAIN index[term]))) \div doc_word_count]

\* self.document_vectors[doc_id] = tfidf_vector: a key that is assigned again keeps
\* its place in the dict, a new key goes last
SetVector(items, doc_id, tfidf_vector) ==
    IF \E i \in 1..Len(items) : items[i].document_id = doc_id
    THEN [i \in 1..Len(items) |->
            IF items[i].document_id = doc_id
            THEN [document_id |-> doc_id, vector |-> tfidf_vector]
            ELSE items[i]]
    ELSE Append(items, [document_id |-> doc_id, vector |-> tfidf_vector])

\* for doc_id in self.index.document_metadata.keys(): ...
RECURSIVE StoreVectors(_, _, _, _)
StoreVectors(items, keys, mapping, vocabulary_size) ==
    IF keys = <<>> THEN items
    ELSE StoreVectors(SetVector(items, Head(keys),
                                TfidfVector(Head(keys), mapping, vocabulary_size)),
                      Tail(keys), mapping, vocabulary_size)

calculate_tfidf(order) ==
    /\ term_to_index' = TermToIndex(order)
    /\ document_vectors' = StoreVectors(document_vectors, key_order, TermToIndex(order),
                                        Cardinality(vocabulary))
    /\ last' = [NoCall EXCEPT !.op = "calculate_tfidf"]
    /\ results' = <<>>
    /\ stats' = NoStats
    /\ returned' = None
    /\ UNCHANGED <<state, file, saved, index_postdates, history, key_order, file_key_order, expansion_cache,
                   rebuild, vector_file>>

\* term_freq[term] = term_freq.get(term, 0) + 1, for every query term
term_freq(query_terms) ==
    [t \in SetOf(query_terms) |-> Cardinality({i \in 1..Len(query_terms) : query_terms[i] = t})]

\* the size of the vector get_query_vector allocates: len(self.index.vocabulary)
QueryVectorSize == Cardinality(vocabulary)

\* the array get_query_vector returns; numpy raises IndexError ("ok" is FALSE) when a
\* term's dimension is not below the size of the array
QueryVector(query_terms) ==
    LET vocabulary_size == QueryVectorSize
        placed == {t \in SetOf(query_terms) : t \in DOMAIN term_to_index}
    IN  IF query_terms = <<>>
        THEN [ok |-> TRUE, vector |-> [i \in 1..vocabulary_size |-> 0]]
        ELSE IF \E t \in placed : term_to_index[t] >= vocabulary_size
             THEN [ok |-> FALSE, vector |-> <<>>]
             ELSE [ok |-> TRUE,
                   vector |-> [i \in 1..vocabulary_size |->
                      LET here == {t \in placed : term_to_index[t] = i - 1}
                      IN  IF here = {} THEN 0
                          ELSE LET term == CHOOSE t \in here : TRUE
                               IN  (term_freq(query_terms)[term]
                                      * idf(total_documents, get_document_frequency(term)))
                                   \div Len(query_terms)]]

get_query_vector(query_terms) ==
    /\ returned' = QueryVector(query_terms)
    /\ last' = [NoCall EXCEPT !.op = "get_query_vector", !.tokens = query_terms]
    /\ results' = <<>>
    /\ stats' = NoStats
    /\ UNCHANGED <<state, file, saved, index_postdates, history, key_order, file_key_order, query_side>>

----------------------------------------------------------------------------
(* Cosine similarity: get_document_scores and CosineSimilarity *)

\* np.dot of two arrays of the same length
Dot(a, b) == SumOver([i \in 1..Len(a) |-> a[i] * b[i]], 1..Len(a))

\* the integer square root of n, searched between lo and hi
RECURSIVE SqrtBetween(_, _, _)
SqrtBetween(n, lo, hi) ==
    IF lo = hi THEN lo
    ELSE LET mid == (lo + hi + 1) \div 2
         IN  IF mid * mid <= n THEN SqrtBetween(n, mid, hi) ELSE SqrtBetween(n, lo, mid - 1)

\* np.linalg.norm
Norm(a) == SqrtBetween(Dot(a, a), 0, 46340)

\* the quotient without the test of the norms (-1 stands for the nan of 0.0 / 0.0)
Cosine_WithoutNormCheck(a, b) ==
    IF Norm(a) * Norm(b) = 0 THEN -1
    ELSE (((Dot(a, b) * 100) \div Norm(a)) * 10) \div Norm(b)

\* dot_product / (norm_a * norm_b), or 0.0 when a norm is 0; in thousandths
Cosine(a, b) ==
    IF Norm(a) = 0 \/ Norm(b) = 0 THEN 0
    ELSE (((Dot(a, b) * 100) \div Norm(a)) * 10) \div Norm(b)

\* CosineSimilarity.calculate_similarity: np.dot raises on arrays of different
\* lengths, and the except clause returns 0.0
calculate_similarity(vector_a, vector_b) ==
    IF Len(vector_a) # Len(vector_b) THEN 0 ELSE Cosine(vector_a, vector_b)

\* a call of CosineSimilarity.calculate_similarity
similarity_call(vector_a, vector_b) ==
    /\ returned' = calculate_similarity(vector_a, vector_b)
    /\ last' = [op |-> "calculate_similarity", id |-> "", tokens |-> <<>>, blank |-> FALSE,
                held |-> FALSE, top_k |-> 0, ok |-> TRUE, replaced |-> FALSE,
                vector_a |-> vector_a, vector_b |-> vector_b]
    /\ results' = <<>>
    /\ stats' = NoStats
    /\ UNCHANGED <<state, file, saved, index_postdates, history, key_order, file_key_order, query_side>>

\* entries.sort(key=lambda x: x[key], reverse=True), the keys being given apart
SortByKey(entries, keys) ==
    LET keyed  == [i \in 1..Len(entries) |-> [score |-> keys[i], entry |-> entries[i]]]
        sorted == SortByScore(keyed)
    IN  [i \in 1..Len(sorted) |-> sorted[i].entry]

\* CosineSimilarity.rank_documents, document_vectors being the list of the dict's items
rank_documents(query_vector, vectors, top_k) ==
    LET scores == [i \in 1..Len(vectors) |->
                      [document_id      |-> vectors[i].document_id,
                       similarity_score |-> calculate_similarity(query_vector, vectors[i].vector)]]
    IN  Truncate(SortByKey(scores, [i \in 1..Len(scores) |-> scores[i].similarity_score]), top_k)

\* TFIDFCalculator.get_document_scores: the list of scores in the order of the dict;
\* np.dot raises ValueError ("ok" is FALSE) on a stored vector of another length
get_document_scores(query_vector) ==
    IF \E i \in 1..Len(document_vectors) : Len(document_vectors[i].vector) # Len(query_vector)
    THEN [ok |-> FALSE, scores |-> <<>>]
    ELSE [ok |-> TRUE,
          scores |-> [i \in 1..Len(document_vectors) |->
                        [document_id |-> document_vectors[i].document_id,
                         score       |-> Cosine(query_vector, document_vectors[i].vector),
                         metadata    |-> StoredMetadata(document_vectors[i].document_id)]]]

----------------------------------------------------------------------------
(* EnhancedResultsGenerator.search *)

\* self.ranking_weights, in hundredths
ranking_weights == [similarity |-> 70, document_length |-> 10, title_match |-> 15, url_authority |-> 5]

Min(a, b) == IF a <= b THEN a ELSE b

\* metadata.get(key, default)
Get(metadata, key, default) == IF key \in DOMAIN metadata THEN metadata[key] ELSE default

\* the words of a title
TitleWords(title) == IF title = "" THEN <<>> ELSE <<title>>

\* a url of a domain of authority_scores, and one of no such domain
WikipediaUrl == "https://en.wikipedia.org/wiki/Search"

OtherUrl == "https://example.com/engines"

\* _calculate_url_authority, in thousandths: 0.9 for 'wikipedia.org' in the url, 0.5 for
\* a url that holds none of the domains
url_authority(url) == IF url = WikipediaUrl THEN 900 ELSE 500

\* _calculate_enhancement_factors, in thousandths
enhancement_factors(metadata, query_terms) ==
    LET word_count     == Get(metadata, "word_count", 0)
        title          == Get(metadata, "title", "")
        url            == Get(metadata, "url", "")
        title_words    == SetOf(preprocess_text(TitleWords(title)))
        query_word_set == SetOf(query_terms)
        title_overlap  == IF query_word_set = {} THEN 0
                          ELSE (Cardinality(title_words \cap query_word_set) * 1000)
                                   \div Cardinality(query_word_set)
    IN  [document_length |-> IF word_count > 0
                             THEN Min(word_count, 1000000 \div word_count)
                             ELSE 500,
         title_match     |-> IF title # "" THEN Min(title_overlap * 2, 1000) ELSE 0,
         url_authority   |-> IF url # "" THEN url_authority(url) ELSE 500]

\* a call of _calculate_enhancement_factors
calculate_enhancement_factors(metadata, query_terms) ==
    /\ returned' = enhancement_factors(metadata, query_terms)
    /\ last' = [op |-> "calculate_enhancement_factors", id |-> "", tokens |-> query_terms,
                blank |-> FALSE, held |-> FALSE, top_k |-> 0, ok |-> TRUE, replaced |-> FALSE,
                metadata |-> metadata]
    /\ results' = <<>>
    /\ stats' = NoStats
    /\ UNCHANGED <<state, file, saved, index_postdates, history, key_order, file_key_order, query_side>>

combine_scores_SimilarityAlone(basic_similarity, factors) ==
    Min(basic_similarity * 100, 100000)

\* _combine_scores, in 1/100000
combine_scores(basic_similarity, factors) ==
    Min(basic_similarity * ranking_weights.similarity
          + factors.document_length * ranking_weights.document_length
          + factors.title_match * ranking_weights.title_match
          + factors.url_authority * ranking_weights.url_authority,
        100000)

\* _apply_enhanced_ranking: the composite score of every entry, then a stable sort
apply_enhanced_ranking(basic_scores, query_terms) ==
    LET enhanced_scores ==
            [i \in 1..Len(basic_scores) |->
                [document_id      |-> basic_scores[i].document_id,
                 score            |-> combine_scores(basic_scores[i].score,
                                          enhancement_factors(basic_scores[i].metadata, query_terms)),
                 similarity_score |-> basic_scores[i].score * 100,
                 metadata         |-> basic_scores[i].metadata]]
    IN  SortByScore(enhanced_scores)

\* round(x, 4) of a number given in 1/100000, in 1/10000
Round4(x) == (x + 5) \div 10

\* _format_enhanced_results; score and similarity_score in 1/10000
format_enhanced_results(scores) ==
    [i \in 1..Len(scores) |->
        [document_id      |-> scores[i].document_id,
         rank             |-> i,
         score            |-> Round4(scores[i].score),
         similarity_score |-> Round4(Get(scores[i], "similarity_score", 0)),
         title            |-> Get(scores[i].metadata, "title", "Untitled Document"),
         word_count       |-> Get(scores[i].metadata, "word_count", 0)]]

\* the basic scores of the fallback path, their score (a sum of term frequencies) in 1/100000
BooleanScores(query, top_k, order) ==
    LET found == SearchResults(preprocess_text(query), top_k * 2, order)
    IN  [i \in 1..Len(found) |-> [found[i] EXCEPT !.score = @ * 100000]]

\* the try block of EnhancedResultsGenerator.search; `order` is the order in which the
\* fallback (boolean) search iterates its candidate set.  "ok" is FALSE when a
\* statement raises: IndexError in get_query_vector, ValueError in
\* get_document_scores, UnboundLocalError for the query_terms that the fallback path
\* never assigns and that _apply_enhanced_ranking is called with
search_try(query, top_k, use_enhanced_ranking, order) ==
    IF document_vectors # <<>>
    THEN LET query_terms  == preprocess_text(query)
             query_vector == QueryVector(query_terms)
             basic        == get_document_scores(query_vector.vector)
         IN  IF ~query_vector.ok \/ ~basic.ok THEN [ok |-> FALSE, results |-> <<>>]
             ELSE [ok |-> TRUE,
                   results |-> format_enhanced_results(Truncate(
                      IF use_enhanced_ranking /\ basic.scores # <<>>
                      THEN apply_enhanced_ranking(basic.scores, query_terms)
                      ELSE [i \in 1..Len(basic.scores) |->
                               [basic.scores[i] EXCEPT !.score = @ * 100]],
                      top_k))]
    ELSE LET basic_scores == BooleanScores(query, top_k, order)
         IN  IF use_enhanced_ranking /\ basic_scores # <<>>
             THEN [ok |-> FALSE, results |-> <<>>]
             ELSE [ok |-> TRUE, results |-> format_enhanced_results(Truncate(basic_scores, top_k))]

search_except_Reraises(attempt) ==
    [raised |-> ~attempt.ok, results |-> IF attempt.ok THEN attempt.results ELSE <<>>]

\* except Exception as e: ... return []
search_except(attempt) ==
    [raised |-> FALSE, results |-> IF attempt.ok THEN attempt.results ELSE <<>>]

\* the list EnhancedResultsGenerator.search returns
EnhancedSearchResults(query, top_k, use_enhanced_ranking, order) ==
    search_except(search_try(query, top_k, use_enhanced_ranking, order)).results

enhanced_search(query, top_k, use_enhanced_ranking, order) ==
    /\ \E outcome \in {search_except(search_try(query, top_k, use_enhanced_ranking, order))} :
          /\ returned' = outcome.results
          /\ last' = [op |-> "enhanced_search", id |-> "", tokens |-> preprocess_text(query),
                      blank |-> FALSE, held |-> FALSE, top_k |-> top_k,
                      ok |-> ~outcome.raised, replaced |-> FALSE,
                      use_enhanced_ranking |-> use_enhanced_ranking]
    /\ results' = <<>>
    /\ stats' = NoStats
    /\ UNCHANGED <<state, file, saved, index_postdates, history, key_order, file_key_order, query_side>>

\* CosineSimilarity.rank_documents applied to the stored document vectors
rank_stored_documents(query_terms, top_k) ==
    /\ returned' = IF QueryVector(query_terms).ok
                   THEN rank_documents(QueryVector(query_terms).vector, document_vectors, top_k)
                   ELSE <<>>
    /\ last' = [NoCall EXCEPT !.op = "rank_documents", !.tokens = query_terms, !.top_k = top_k]
    /\ results' = <<>>
    /\ stats' = NoStats
    /\ UNCHANGED <<state, file, saved, index_postdates, history, key_order, file_key_order, query_side>>

----------------------------------------------------------------------------
(* EnhancedQueryValidator: strings *)

(* A query string is the sequence of its characters. *)

\* the lowercase letters, in alphabetical order
LowerCase == <<"a", "b", "c", "d", "e", "f", "g", "h", "i", "j", "k", "l", "m",
               "n", "o", "p", "q", "r", "s", "t", "u", "v", "w", "x", "y", "z">>

\* the uppercase letters, in alphabetical order
UpperLetters == <<"A", "B", "C", "D", "E", "F", "G", "H", "I", "J", "K", "L", "M",
                  "N", "O", "P", "Q", "R", "S", "T", "U", "V", "W", "X", "Y", "Z">>

\* the uppercase letters, with their lowercase
UpperCase ==
    [c \in SetOf(UpperLetters) |->
        LowerCase[CHOOSE i \in 1..Len(UpperLetters) : UpperLetters[i] = c]]

Digits == {"0", "1", "2", "3", "4", "5", "6", "7", "8", "9"}

\* the punctuation of self.allowed_chars
AllowedPunctuation == {".", ",", "-", "?", "!", "\"", "'", ":", ";"}

\* \s
IsSpace(c) == c = " "

\* the character class of self.allowed_chars: [a-zA-Z0-9\s\.\,\-\?\!\"\'\:\;]
IsAllowed(c) ==
    \/ c \in SetOf(LowerCase)
    \/ c \in DOMAIN UpperCase
    \/ c \in Digits
    \/ IsSpace(c)
    \/ c \in AllowedPunctuation

\* str.lower(), character by character
lower(chars) ==
    [i \in 1..Len(chars) |-> IF chars[i] \in DOMAIN UpperCase THEN UpperCase[chars[i]] ELSE chars[i]]

\* the members of a set of numbers, in ascending order
Ascending(S) == [k \in 1..Cardinality(S) |-> CHOOSE x \in S : Cardinality({y \in S : y < x}) = k - 1]

\* str.split(): the maximal runs of characters that are not whitespace
split(chars) ==
    LET starts == {i \in 1..Len(chars) :
                      ~IsSpace(chars[i]) /\ (i = 1 \/ IsSpace(chars[i - 1]))}
        ends   == {i \in 1..Len(chars) :
                      ~IsSpace(chars[i]) /\ (i = Len(chars) \/ IsSpace(chars[i + 1]))}
    IN  [k \in 1..Cardinality(starts) |-> SubSeq(chars, Ascending(starts)[k], Ascending(ends)[k])]

\* ' '.join(words)
RECURSIVE join(_)
join(words) ==
    IF words = <<>> THEN <<>>
    ELSE IF Len(words) = 1 THEN words[1]
         ELSE words[1] \o <<" ">> \o join(Tail(words))

\* not str.strip()
IsBlank(chars) == \A i \in 1..Len(chars) : IsSpace(chars[i])

\* str.isdigit()
isdigit(chars) == chars # <<>> /\ \A i \in 1..Len(chars) : chars[i] \in Digits

\* needle in haystack, for strings
Contains(haystack, needle) ==
    \E k \in 0..(Len(haystack) - Len(needle)) :
        \A i \in 1..Len(needle) : haystack[k + i] = needle[i]

\* str.startswith
startswith(chars, prefix) ==
    /\ Len(prefix) <= Len(chars)
    /\ \A i \in 1..Len(prefix) : chars[i] = prefix[i]

\* the place of a lowercase letter in the alphabet (0 for another character)
LetterRank(c) ==
    IF c \in SetOf(LowerCase) THEN CHOOSE i \in 1..Len(LowerCase) : LowerCase[i] = c ELSE 0

\* a < b for strings, as Python compares the tuples (-similarity, vocab_word)
RECURSIVE LexLess(_, _)
LexLess(a, b) ==
    IF b = <<>> THEN FALSE
    ELSE IF a = <<>> THEN TRUE
    ELSE IF Head(a) = Head(b) THEN LexLess(Tail(a), Tail(b))
    ELSE LetterRank(Head(a)) < LetterRank(Head(b))

Min3(a, b, c) == Min(a, Min(b, c))

\* nltk.metrics.edit_distance: the Levenshtein distance, row by row
RECURSIVE DistanceRow(_, _, _, _)
DistanceRow(previous, char, b, row) ==
    IF Len(row) = Len(b) + 1 THEN row
    ELSE LET j == Len(row)
         IN  DistanceRow(previous, char, b,
                 Append(row, Min3(previous[j + 1] + 1,
                                  row[j] + 1,
                                  previous[j] + (IF char = b[j] THEN 0 ELSE 1))))

RECURSIVE DistanceFrom(_, _, _, _)
DistanceFrom(a, b, i, previous) ==
    IF i > Len(a) THEN previous[Len(b) + 1]
    ELSE DistanceFrom(a, b, i + 1, DistanceRow(previous, a[i], b, <<i>>))

edit_distance(a, b) == DistanceFrom(a, b, 1, [j \in 1..(Len(b) + 1) |-> j - 1])

----------------------------------------------------------------------------
(* EnhancedQueryValidator: validate_query *)

\* self.max_query_length
max_query_length == 200

\* self.min_query_length
min_query_length == 1

\* the words of the model
Word_search == <<"s", "e", "a", "r", "c", "h">>
Word_engine == <<"e", "n", "g", "i", "n", "e">>
Word_web == <<"w", "e", "b">>
Word_crawling == <<"c", "r", "a", "w", "l", "i", "n", "g">>
Word_crawler == <<"c", "r", "a", "w", "l", "e", "r">>
Word_data == <<"d", "a", "t", "a">>
Word_mining == <<"m", "i", "n", "i", "n", "g">>
Word_the == <<"t", "h", "e">>
Word_network == <<"n", "e", "t", "w", "o", "r", "k">>
Word_net == <<"n", "e", "t">>

\* self.common_queries: three of its entries
common_queries == <<join(<<Word_search, Word_engine>>),
                    join(<<Word_web, Word_crawling>>),
                    join(<<Word_data, Word_mining>>)>>

\* self.search_history: two of its entries
search_history == <<join(<<Word_search, Word_engine>>),
                    join(<<Word_web, Word_crawler>>)>>

\* technical_terms: one of its entries
technical_terms == {Word_crawler}

\* self.vocabulary, as _initialize_enhanced_spell_checker builds it: the words of the
\* common queries and the technical terms
spell_vocabulary ==
    UNION {SetOf(split(lower(common_queries[i]))) : i \in 1..Len(common_queries)}
        \cup technical_terms

\* self.stop_words of the validator
validator_stop_words == {Word_the}

\* word in string.punctuation, for a token
in_punctuation(word) ==
    Len(word) = 1 /\ word[1] \in AllowedPunctuation \cup {"@", "#"}

\* the reasons for which validate_query rejects a query
IsTooLong_FromTheLimit(query) == Len(query) >= max_query_length

IsTooLong(query) == Len(query) > max_query_length

\* _find_invalid_characters: the characters outside the class, each once, in the order
\* of their first occurrence
find_invalid_characters(query) ==
    LET first == {i \in 1..Len(query) :
                     ~IsAllowed(query[i]) /\ \A j \in 1..(i - 1) : query[j] # query[i]}
    IN  [k \in 1..Cardinality(first) |-> query[Ascending(first)[k]]]

\* _clean_query: lowercase, single spaces, no character outside [\w\s.,\-?!"':;]
clean_query(query) ==
    LET spaced == join(split(lower(query)))
    IN  join(split(SelectSeq(spaced, IsAllowed)))

\* word_tokenize(query), for a query of words separated by whitespace
tokenize_query(query) == split(query)

\* _is_misspelled
is_misspelled(word) ==
    /\ word \notin validator_stop_words
    /\ ~in_punctuation(word)
    /\ lower(word) \notin spell_vocabulary
    /\ ~isdigit(SelectSeq(word, LAMBDA c : c # "."))

\* similarity = 1 - (distance / max(len(word), len(vocab_word))), as the fraction
\* <<numerator, denominator>>
similarity(word, vocab_word) ==
    LET longest == Max(Len(word), Len(vocab_word))
    IN  <<longest - edit_distance(lower(word), lower(vocab_word)), longest>>

\* similarity > 0.6, that is 5 * numerator > 3 * denominator
IsCandidate_FromTheThreshold(s) == 5 * s[1] >= 3 * s[2]

IsCandidate(s) == 5 * s[1] > 3 * s[2]

\* (-similarity, vocab_word) < (-similarity, vocab_word) for two entries
\* <<similarity, vocab_word>>: the order of the heap of candidates
HeapBefore(a, b) ==
    \/ a[1][1] * b[1][2] > b[1][1] * a[1][2]
    \/ a[1][1] * b[1][2] = b[1][1] * a[1][2] /\ LexLess(a[2], b[2])

\* _find_best_correction: the first entry popped from the heap of the candidates
find_best_correction(word) ==
    LET scored     == {<<similarity(word, v), v>> : v \in spell_vocabulary}
        candidates == {c \in scored : IsCandidate(c[1])}
    IN  IF candidates = {} THEN word
        ELSE (CHOOSE c \in candidates : \A d \in candidates \ {c} : HeapBefore(c, d))[2]

\* _calculate_confidence, in thousandths
calculate_confidence(original, correction) ==
    LET s == similarity(original, correction)
    IN  (((s[1] * 1000) \div s[2]) * Min(Len(original) * 100, 1000)) \div 1000

\* the word _enhanced_spell_check puts in corrected_words for a token
CorrectedWord(word) ==
    IF in_punctuation(word) THEN word
    ELSE IF is_misspelled(word) THEN find_best_correction(word)
    ELSE word

\* corrected_words of _enhanced_spell_check: one word appended for each token
RECURSIVE correct_words(_)
correct_words(words) ==
    IF words = <<>> THEN <<>>
    ELSE <<CorrectedWord(Head(words))>> \o correct_words(Tail(words))

\* corrections of _enhanced_spell_check: one record for each token that was changed
RECURSIVE spell_corrections(_, _)
spell_corrections(words, corrected_words) ==
    IF words = <<>> THEN <<>>
    ELSE (IF Head(corrected_words) # Head(words)
          THEN <<[original   |-> Head(words),
                  corrected  |-> Head(corrected_words),
                  confidence |-> calculate_confidence(Head(words), Head(corrected_words))]>>
          ELSE <<>>)
         \o spell_corrections(Tail(words), Tail(corrected_words))

\* _enhanced_spell_check
enhanced_spell_check(query) ==
    LET words           == tokenize_query(query)
        corrected_words == correct_words(words)
        corrections     == spell_corrections(words, corrected_words)
    IN  [has_corrections |-> Len(corrections) > 0,
         corrections     |-> corrections,
         corrected_query |-> IF corrections # <<>> THEN join(corrected_words) ELSE query]

\* _get_enhanced_synonyms: the synonyms WordNet gives for a word
get_enhanced_synonyms(word) == IF word = Word_web THEN {Word_network} ELSE {}

\* _get_related_terms: the hyponyms and hypernyms WordNet gives for a word
get_related_terms(word) == IF word = Word_web THEN {Word_net} ELSE {}

\* the set new_terms of _enhanced_query_expansion
NewTerms(query) ==
    LET words == tokenize_query(query)
        used  == {w \in SetOf(words) : w \notin validator_stop_words /\ ~in_punctuation(w)}
    IN  (UNION {get_enhanced_synonyms(w) \cup get_related_terms(w) : w \in used}) \ SetOf(words)

\* the dict _enhanced_query_expansion computes when the query is not in the cache;
\* `order` is the order in which the set new_terms is iterated
ComputedExpansion(query, order) ==
    LET words == tokenize_query(query)
    IN  [original_terms |-> SetOf(words),
         expanded_terms |-> SetOf(words) \cup SetOf(order),
         new_terms      |-> order,
         expanded_query |-> join(split(join(words) \o <<" ">> \o join(order)))]

\* _enhanced_query_expansion: the cached dict if there is one
enhanced_query_expansion(query, order) ==
    IF query \in DOMAIN expansion_cache
    THEN expansion_cache[query]
    ELSE ComputedExpansion(query, order)

\* self.expansion_cache[query] = result
StoreExpansion(cache, query, result) ==
    [q \in DOMAIN cache \cup {query} |-> IF q = query THEN result ELSE cache[q]]

\* the error code with which validate_query rejects a query, "" when it accepts it
rejection_code(query) ==
    IF IsBlank(query) THEN "EMPTY_QUERY"
    ELSE IF Len(query) < min_query_length THEN "QUERY_TOO_SHORT"
    ELSE IF IsTooLong(query) THEN "QUERY_TOO_LONG"
    ELSE IF \E i \in 1..Len(query) : ~IsAllowed(query[i]) THEN "INVALID_CHARACTERS"
    ELSE ""

\* the dict validate_query returns
ValidationResult(query, order) ==
    IF rejection_code(query) = "INVALID_CHARACTERS"
    THEN [valid |-> FALSE, error_code |-> rejection_code(query),
          invalid_chars |-> find_invalid_characters(query)]
    ELSE IF rejection_code(query) # ""
    THEN [valid |-> FALSE, error_code |-> rejection_code(query)]
    ELSE LET cleaned_query    == clean_query(query)
             spelling_result  == enhanced_spell_check(cleaned_query)
             expansion_result == enhanced_query_expansion(cleaned_query, order)
         IN  [valid           |-> TRUE,
              original_query  |-> query,
              cleaned_query   |-> cleaned_query,
              corrected_query |-> spelling_result.corrected_query,
              expanded_query  |-> expansion_result.expanded_query,
              spelling        |-> spelling_result,
              expansion       |-> expansion_result,
              suggested_query |-> expansion_result.expanded_query,
              has_corrections |-> spelling_result.has_corrections,
              has_expansions  |-> Len(expansion_result.new_terms) > 0]

\* the cache after validate_query
CacheAfter(result) ==
    IF result.valid /\ result.cleaned_query \notin DOMAIN expansion_cache
    THEN StoreExpansion(expansion_cache, result.cleaned_query, result.expansion)
    ELSE expansion_cache

validate_query(query, order) ==
    /\ \E result \in {ValidationResult(query, order)} :
          /\ returned' = result
          /\ expansion_cache' = CacheAfter(result)
    /\ last' = [NoCall EXCEPT !.op = "validate_query", !.tokens = query]
    /\ results' = <<>>
    /\ stats' = NoStats
    /\ UNCHANGED <<state, file, saved, index_postdates, history, key_order, file_key_order,
                   term_to_index, document_vectors, rebuild, vector_file>>

----------------------------------------------------------------------------
(* EnhancedQueryValidator: get_enhanced_suggestions *)

\* the entries appended to suggestions for the strings of one source; scores in hundredths
Suggestions(strings, type, score) ==
    [i \in 1..Len(strings) |-> [suggestion |-> strings[i], type |-> type, score |-> score]]

\* query_lower in q.lower() and q.lower() != query_lower
MatchesQuery(q, query_lower) == Contains(lower(q), query_lower) /\ lower(q) # query_lower

\* the vocabulary terms that the prefix suggestions are taken from
PrefixTerms(query) ==
    {term \in spell_vocabulary :
        startswith(term, lower(query)) /\ Len(term) > Len(lower(query))}

\* the spelling correction suggested for a query of a single word
CorrectionSuggestions(query) ==
    IF Len(split(query)) = 1 /\ find_best_correction(query) # query
    THEN <<find_best_correction(query)>>
    ELSE <<>>

\* the loop over the sorted suggestions: an entry is kept when its string was not seen
RECURSIVE UniqueFrom(_, _)
UniqueFrom(entries, seen) ==
    IF entries = <<>> THEN <<>>
    ELSE IF Head(entries).suggestion \in seen
         THEN UniqueFrom(Tail(entries), seen)
         ELSE <<Head(entries)>> \o UniqueFrom(Tail(entries), seen \cup {Head(entries).suggestion})

unique_suggestions_KeepsEvery(suggestions) == suggestions

\* unique_suggestions
unique_suggestions(suggestions) == UniqueFrom(suggestions, {})

\* the list get_enhanced_suggestions returns; `order` is the order in which the set
\* self.vocabulary yields the terms that start with the query
EnhancedSuggestions(query, max_suggestions, order) ==
    IF Len(query) < 2 THEN <<>>
    ELSE LET query_lower         == lower(query)
             vocab_suggestions   == Truncate(order, max_suggestions)
             common_suggestions  ==
                 Truncate(SelectSeq(common_queries, LAMBDA q : MatchesQuery(q, query_lower)),
                          max_suggestions)
             history_suggestions ==
                 Truncate(SelectSeq(search_history, LAMBDA q : MatchesQuery(q, query_lower)),
                          max_suggestions)
             suggestions         ==
                 Suggestions(vocab_suggestions, "vocabulary", 90)
                     \o Suggestions(common_suggestions, "common_query", 80)
                     \o Suggestions(history_suggestions, "history", 70)
                     \o Suggestions(CorrectionSuggestions(query), "spelling_correction", 60)
             sorted              ==
                 SortByKey(suggestions, [i \in 1..Len(suggestions) |-> suggestions[i].score])
         IN  Truncate(unique_suggestions(sorted), max_suggestions)

get_enhanced_suggestions(query, max_suggestions, order) ==
    /\ returned' = EnhancedSuggestions(query, max_suggestions, order)
    /\ last' = [NoCall EXCEPT !.op = "get_enhanced_suggestions", !.tokens = query,
                              !.top_k = max_suggestions]
    /\ results' = <<>>
    /\ stats' = NoStats
    /\ UNCHANGED <<state, file, saved, index_postdates, history, key_order, file_key_order, query_side>>

----------------------------------------------------------------------------
(* EnhancedResultsGenerator: the snippet *)

\* chars[start:end], for 0 <= start
Slice(chars, start, end) == SubSeq(chars, start + 1, Min(end, Len(chars)))

\* haystack.find(needle, start): the first position (from 0) at or after start at
\* which needle occurs, -1 when there is none
find(haystack, needle, start) ==
    LET found == {k \in start..(Len(haystack) - Len(needle)) :
                     \A i \in 1..Len(needle) : haystack[k + i] = needle[i]}
    IN  IF found = {} THEN -1 ELSE CHOOSE k \in found : \A other \in found : k <= other

\* str.strip()
strip(chars) ==
    LET kept == {i \in 1..Len(chars) : ~IsSpace(chars[i])}
    IN  IF kept = {} THEN <<>>
        ELSE SubSeq(chars, CHOOSE i \in kept : \A j \in kept : i <= j,
                           CHOOSE i \in kept : \A j \in kept : j <= i)

\* [term.lower() for term in query.split() if len(term) > 2]
snippet_query_terms(query) ==
    LET long == SelectSeq(split(query), LAMBDA term : Len(term) > 2)
    IN  [i \in 1..Len(long) |-> lower(long[i])]

\* the while loop of _find_optimal_snippet: the (pos, term) of every occurrence of a term
RECURSIVE PositionsFrom(_, _, _)
PositionsFrom(content_lower, term, start) ==
    LET pos == find(content_lower, term, start)
    IN  IF pos = -1 THEN <<>>
        ELSE <<<<pos, term>>>> \o PositionsFrom(content_lower, term, pos + 1)

\* term_positions before it is sorted
RECURSIVE AllPositions(_, _)
AllPositions(content_lower, query_terms) ==
    IF query_terms = <<>> THEN <<>>
    ELSE PositionsFrom(content_lower, Head(query_terms), 0)
             \o AllPositions(content_lower, Tail(query_terms))

\* (pos, term) < (pos, term), as Python compares tuples
PositionBefore(a, b) == a[1] < b[1] \/ (a[1] = b[1] /\ LexLess(a[2], b[2]))

\* term_positions.sort()
RECURSIVE SortPositions(_)
SortPositions(positions) ==
    IF positions = <<>> THEN <<>>
    ELSE LET first == CHOOSE i \in 1..Len(positions) :
                          \A j \in 1..Len(positions) : ~PositionBefore(positions[j], positions[i])
         IN  <<positions[first]>>
                 \o SortPositions(SubSeq(positions, 1, first - 1)
                                      \o SubSeq(positions, first + 1, Len(positions)))

\* cluster_score of the window that starts at entry i, in units of 100 / max_length
ClusterScore(positions, i, max_length) ==
    LET current_end == positions[i][1] + max_length
        in_window   == {j \in i..Len(positions) :
                           \A k \in i..j : positions[k][1] < current_end}
    IN  Cardinality(in_window) * Cardinality({positions[j][2] : j \in in_window})

\* _find_best_term_cluster: the first window of the highest score, None without a
\* window of a positive score
find_best_term_cluster(positions, max_length) ==
    IF \A i \in 1..Len(positions) : ClusterScore(positions, i, max_length) <= 0
    THEN None
    ELSE LET best == CHOOSE i \in 1..Len(positions) :
                         /\ \A j \in 1..Len(positions) :
                               ClusterScore(positions, j, max_length)
                                   <= ClusterScore(positions, i, max_length)
                         /\ \A j \in 1..(i - 1) :
                               ClusterScore(positions, j, max_length)
                                   < ClusterScore(positions, i, max_length)
         IN  <<positions[best][1], positions[best][1] + max_length>>

\* the first loop of _adjust_to_word_boundaries: back to the previous space
RECURSIVE PreviousSpace(_, _)
PreviousSpace(full_content, start_pos) ==
    IF start_pos > 0 /\ full_content[start_pos + 1] # " "
    THEN PreviousSpace(full_content, start_pos - 1)
    ELSE start_pos

\* the second loop of _adjust_to_word_boundaries: on to the next space
RECURSIVE NextSpace(_, _)
NextSpace(full_content, end_pos) ==
    IF end_pos < Len(full_content) /\ full_content[end_pos + 1] # " "
    THEN NextSpace(full_content, end_pos + 1)
    ELSE end_pos

\* _adjust_to_word_boundaries
adjust_to_word_boundaries(snippet, full_content) ==
    IF find(full_content, snippet, 0) = -1 THEN snippet
    ELSE LET start_pos == PreviousSpace(full_content, find(full_content, snippet, 0))
             end_pos   == NextSpace(full_content, start_pos + Len(snippet))
         IN  strip(Slice(full_content, start_pos, end_pos))

\* content[:max_length] + "..." if len(content) > max_length else content
LeadingSnippet(content, max_length) ==
    [window |-> Slice(content, 0, max_length), ellipsis |-> Len(content) > max_length]

\* the string _find_optimal_snippet returns: the window and whether "..." follows it
OptimalSnippet(content, query, max_length) ==
    LET query_terms == snippet_query_terms(query)
        positions   == SortPositions(AllPositions(lower(content), query_terms))
    IN  IF query_terms = <<>> \/ positions = <<>>
        THEN LeadingSnippet(content, max_length)
        ELSE LET best_cluster == find_best_term_cluster(positions, max_length)
                 first_pos    == positions[1][1]
                 start        == IF best_cluster # None THEN best_cluster[1]
                                 ELSE Max(0, first_pos - 50)
                 end          == IF best_cluster # None THEN best_cluster[2]
                                 ELSE Min(Len(content), first_pos + max_length - 50)
                 snippet      == adjust_to_word_boundaries(Slice(content, start, end), content)
             IN  [window |-> snippet, ellipsis |-> Len(snippet) < Len(content)]

find_optimal_snippet(content, query, max_length) ==
    /\ returned' = OptimalSnippet(content, query, max_length)
    /\ last' = [op |-> "find_optimal_snippet", id |-> "", tokens |-> query, blank |-> FALSE,
                held |-> FALSE, top_k |-> max_length, ok |-> TRUE, replaced |-> FALSE,
                content |-> content]
    /\ results' = <<>>
    /\ stats' = NoStats
    /\ UNCHANGED <<state, file, saved, index_postdates, history, key_order, file_key_order, query_side>>

----------------------------------------------------------------------------
(* EnhancedResultsGenerator: the highlighting *)

\* str.title(): a letter is uppercase after a character that is not a letter, and
\* lowercase after a letter
title(chars) ==
    [i \in 1..Len(chars) |->
        IF i > 1 /\ (chars[i - 1] \in SetOf(LowerCase) \/ chars[i - 1] \in DOMAIN UpperCase)
        THEN (IF chars[i] \in DOMAIN UpperCase THEN UpperCase[chars[i]] ELSE chars[i])
        ELSE (IF chars[i] \in SetOf(LowerCase) THEN UpperLetters[LetterRank(chars[i])]
              ELSE chars[i])]

\* chars.replace(old, new), for old not empty: the occurrences of old from left to
\* right, none overlapping another
RECURSIVE replace(_, _, _)
replace(chars, old, new) ==
    IF Len(chars) < Len(old) THEN chars
    ELSE IF startswith(chars, old)
         THEN new \o replace(SubSeq(chars, Len(old) + 1, Len(chars)), old, new)
         ELSE <<Head(chars)>> \o replace(Tail(chars), old, new)

\* f"**{term}**"
Marked(term) == <<"*", "*">> \o term \o <<"*", "*">>

\* [term for term in query.split() if len(term) > 2]
highlight_query_terms_of(query) == SelectSeq(split(query), LAMBDA term : Len(term) > 2)

\* the loop of _highlight_query_terms: for each term, the term as typed and then its
\* title form are replaced by their marked forms
RECURSIVE HighlightTerms(_, _)
HighlightTerms(snippet, query_terms) ==
    IF query_terms = <<>> THEN snippet
    ELSE LET term   == Head(query_terms)
             first  == replace(snippet, term, Marked(term))
             second == replace(first, title(term), Marked(title(term)))
         IN  HighlightTerms(second, Tail(query_terms))

\* _highlight_query_terms
highlight_query_terms(snippet, query) ==
    /\ returned' = HighlightTerms(snippet, highlight_query_terms_of(query))
    /\ last' = [op |-> "highlight_query_terms", id |-> "", tokens |-> query, blank |-> FALSE,
                held |-> FALSE, top_k |-> 0, ok |-> TRUE, replaced |-> FALSE,
                content |-> snippet]
    /\ results' = <<>>
    /\ stats' = NoStats
    /\ UNCHANGED <<state, file, saved, index_postdates, history, key_order, file_key_order, query_side>>

----------------------------------------------------------------------------
(* The /search handler *)

\* the words of the document texts and the characters that spell them
Spelled ==
    {<<Word_search, "search">>, <<Word_web, "web">>, <<Word_crawling, "crawling">>,
     <<Word_the, "the">>, <<Word_network, "network">>, <<Word_net, "net">>,
     <<<<"c", "r", "a", "w", "l", "i", "n">>, "crawlin">>,
     <<<<"s", "e", "r", "c", "h">>, "serch">>,
     <<<<"d", "z", "t", "a", "b">>, "dztab">>,
     <<<<"4", "2">>, "42">>}

\* the query string, as the text of words that preprocess_text is given
TextOf(chars) ==
    LET words == split(chars)
    IN  [i \in 1..Len(words) |-> (CHOOSE pair \in Spelled : pair[1] = words[i])[2]]

\* the responses of the handler that carry an error code
ErrorResponse(status, error_code) == [status |-> status, error_code |-> error_code]

\* the keys of validation_result that the handler reads with validation_result[key]
KeysRead(use_spell_check, use_expansion) ==
    {"cleaned_query", "spelling", "expansion", "valid"}
        \cup (IF use_spell_check THEN {"has_corrections"} ELSE {})
        \cup (IF use_expansion THEN {"has_expansions"} ELSE {})

\* the body of the handler after validate_query: a KeyError, as every exception, is
\* caught and answered with INTERNAL_ERROR
SearchResponse(query, top_k, use_spell_check, use_expansion, validation_result, order) ==
    IF ~(KeysRead(use_spell_check, use_expansion) \subseteq DOMAIN validation_result)
    THEN ErrorResponse(500, "INTERNAL_ERROR")
    ELSE LET correction_used == use_spell_check /\ validation_result.has_corrections
             search_query    == IF correction_used
                                THEN validation_result.corrected_query
                                ELSE validation_result.cleaned_query
             expansion_used  == use_expansion /\ validation_result.has_expansions
             final_query     == IF expansion_used
                                THEN validation_result.expanded_query
                                ELSE search_query
             search_results  == EnhancedSearchResults(TextOf(final_query), top_k, TRUE, order)
         IN  [status               |-> 200,
              query                |-> query,
              processed_query      |-> final_query,
              cleaned_query        |-> validation_result.cleaned_query,
              results              |-> search_results,
              total_results        |-> Len(search_results),
              spell_check_used     |-> correction_used,
              query_expansion_used |-> expansion_used]

\* the candidate set that the fallback search of the handler iterates
HandlerCandidates(query, use_spell_check, use_expansion, validation_result) ==
    IF ~validation_result.valid THEN {}
    ELSE RelevantDocs(index, preprocess_text(TextOf(
             SearchResponse(query, 1, use_spell_check, use_expansion,
                            validation_result, <<>>).processed_query)))

\* POST /search
search_handler(query, top_k, use_spell_check, use_expansion, new_terms) ==
    /\ IF query = <<>>
       THEN /\ returned' = ErrorResponse(400, "MISSING_QUERY")
            /\ UNCHANGED expansion_cache
       ELSE \E validation_result \in {ValidationResult(query, new_terms)} :
                /\ expansion_cache' = CacheAfter(validation_result)
                /\ \E order \in IterationOrders(HandlerCandidates(query, use_spell_check,
                                                    use_expansion, validation_result)) :
                       returned' = SearchResponse(query, top_k, use_spell_check,
                                                  use_expansion, validation_result, order)
    /\ last' = [NoCall EXCEPT !.op = "search_handler", !.tokens = query, !.top_k = top_k]
    /\ results' = <<>>
    /\ stats' = NoStats
    /\ UNCHANGED <<state, file, saved, index_postdates, history, key_order, file_key_order,
                   term_to_index, document_vectors, rebuild, vector_file>>

----------------------------------------------------------------------------
(* load_index and calculate_tfidf, statement by statement *)

\* the fields TFIDFCalculator.calculate_tfidf assigns
VectorRecord(mapping, items) == [term_to_index |-> mapping, document_vectors |-> items]

\* with open(filepath) ... json.load(f): the call has read the file and has assigned
\* nothing yet
begin_load_index(missing) ==
    /\ rebuild.pc = "idle"
    /\ file # NoFile
    /\ rebuild' = [pc         |-> "load_index",
                   line       |-> 171,
                   index_data |-> SnapshotLacking(missing),
                   old        |-> StateRecord(index, document_metadata, vocabulary,
                                              total_documents)]
    /\ last' = [NoCall EXCEPT !.op = "load_index"]
    /\ results' = <<>>
    /\ stats' = NoStats
    /\ returned' = None
    /\ UNCHANGED <<state, file, saved, index_postdates, history, key_order, file_key_order,
                   term_to_index, document_vectors, expansion_cache, vector_file>>

\* the next assignment of load_index; a section that index_data lacks raises KeyError,
\* which ends the call
load_index_step ==
    /\ rebuild.pc = "load_index"
    /\ UNCHANGED <<file, saved, index_postdates, history, file_key_order, results, stats, last, returned,
                   term_to_index, document_vectors, expansion_cache, vector_file>>
    /\ CASE rebuild.line = 171 ->
               /\ index' = EmptyIndex
               /\ rebuild' = [rebuild EXCEPT !.line = 172]
               /\ UNCHANGED <<document_metadata, vocabulary, total_documents, key_order>>
         [] rebuild.line = 172 ->
               IF "index" \notin DOMAIN rebuild.index_data
               THEN rebuild' = Idle /\ UNCHANGED <<state, key_order>>
               ELSE IF DOMAIN rebuild.index_data["index"] \subseteq DOMAIN index
               THEN /\ rebuild' = [rebuild EXCEPT !.line = 175]
                    /\ UNCHANGED <<state, key_order>>
               ELSE \E term \in DOMAIN rebuild.index_data["index"] \ DOMAIN index :
                       /\ index' = [t \in DOMAIN index \cup {term} |->
                                       IF t = term THEN rebuild.index_data["index"][term]
                                       ELSE index[t]]
                       /\ UNCHANGED <<rebuild, document_metadata, vocabulary,
                                      total_documents, key_order>>
         [] rebuild.line = 175 ->
               IF "document_metadata" \notin DOMAIN rebuild.index_data
               THEN rebuild' = Idle /\ UNCHANGED <<state, key_order>>
               ELSE /\ document_metadata' = rebuild.index_data["document_metadata"]
                    /\ key_order' = file_key_order
                    /\ rebuild' = [rebuild EXCEPT !.line = 176]
                    /\ UNCHANGED <<index, vocabulary, total_documents>>
         [] rebuild.line = 176 ->
               IF "vocabulary" \notin DOMAIN rebuild.index_data
               THEN rebuild' = Idle /\ UNCHANGED <<state, key_order>>
               ELSE /\ vocabulary' = SetOf(rebuild.index_data["vocabulary"])
                    /\ rebuild' = [rebuild EXCEPT !.line = 177]
                    /\ UNCHANGED <<index, document_metadata, total_documents, key_order>>
         [] rebuild.line = 177 ->
               /\ rebuild' = Idle
               /\ IF "total_documents" \notin DOMAIN rebuild.index_data
                  THEN UNCHANGED <<state, key_order>>
                  ELSE /\ total_documents' = rebuild.index_data["total_documents"]
                       /\ UNCHANGED <<index, document_metadata, vocabulary, key_order>>

\* self.term_to_index = {...}; vocabulary_size = len(self.index.vocabulary); the loop
\* over the documents has not begun
begin_calculate_tfidf(order) ==
    /\ rebuild.pc = "idle"
    /\ term_to_index' = TermToIndex(order)
    /\ rebuild' = [pc              |-> "calculate_tfidf",
                   keys            |-> key_order,
                   vocabulary_size |-> Cardinality(vocabulary),
                   old             |-> VectorRecord(term_to_index, document_vectors),
                   new             |-> VectorRecord(TermToIndex(order),
                                           StoreVectors(document_vectors, key_order,
                                               TermToIndex(order), Cardinality(vocabulary)))]
    /\ last' = [NoCall EXCEPT !.op = "calculate_tfidf"]
    /\ results' = <<>>
    /\ stats' = NoStats
    /\ returned' = None
    /\ UNCHANGED <<state, file, saved, index_postdates, history, key_order, file_key_order,
                   document_vectors, expansion_cache, vector_file>>

\* one turn of the loop over the documents: self.document_vectors[doc_id] = tfidf_vector
calculate_tfidf_step ==
    /\ rebuild.pc = "calculate_tfidf"
    /\ IF rebuild.keys = <<>>
       THEN rebuild' = Idle /\ UNCHANGED document_vectors
       ELSE /\ document_vectors' =
                   SetVector(document_vectors, Head(rebuild.keys),
                             TfidfVector(Head(rebuild.keys), term_to_index,
                                         rebuild.vocabulary_size))
            /\ rebuild' = [rebuild EXCEPT !.keys = Tail(@)]
    /\ UNCHANGED <<state, file, saved, index_postdates, history, key_order, file_key_order, results, stats,
                   last, returned, term_to_index, expansion_cache, vector_file>>

----------------------------------------------------------------------------
(* The vector file, a run of the indexer and the start of the engine *)

\* save_tfidf_vectors: pickle.dump of term_to_index and document_vectors
save_tfidf_vectors ==
    /\ vector_file' = VectorRecord(term_to_index, document_vectors)
    /\ index_postdates' = FALSE
    /\ last' = [NoCall EXCEPT !.op = "save_tfidf_vectors"]
    /\ results' = <<>>
    /\ stats' = NoStats
    /\ returned' = None
    /\ UNCHANGED <<state, file, saved, history, key_order, file_key_order,
                   term_to_index, document_vectors, expansion_cache, rebuild>>

\* the start of run_indexer.main: a new process, whose InvertedIndex() is empty and
\* which has built no vectors; the two files are those the runs before it left
new_indexer_run ==
    /\ index' = EmptyIndex
    /\ document_metadata' = EmptyMetadataTable
    /\ vocabulary' = {}
    /\ total_documents' = 0
    /\ key_order' = <<>>
    /\ term_to_index' = EmptyDict
    /\ document_vectors' = <<>>
    /\ last' = [NoCall EXCEPT !.op = "new_indexer_run"]
    /\ results' = <<>>
    /\ stats' = NoStats
    /\ returned' = None
    /\ UNCHANGED <<file, saved, index_postdates, history, file_key_order, expansion_cache,
                   rebuild, vector_file>>

\* EnhancedResultsGenerator.__init__ and _load_index_data in a new process: an empty
\* InvertedIndex, load_index of the snapshot file when it exists and, when that
\* returns and the vector file exists, load_tfidf_vectors; an exception of load_index
\* is caught and logged, and the vectors are then not loaded
load_index_data(missing) ==
    LET fresh  == StateRecord(EmptyIndex, EmptyMetadataTable, {}, 0)
        new    == IF file = NoFile THEN fresh ELSE LoadedState(fresh, SnapshotLacking(missing))
        loaded == file # NoFile /\ new.ok
    IN  /\ index' = new.index
        /\ document_metadata' = new.document_metadata
        /\ vocabulary' = new.vocabulary
        /\ total_documents' = new.total_documents
        /\ key_order' = IF file # NoFile
                           /\ {"index", "document_metadata"} \subseteq DOMAIN file \ missing
                        THEN file_key_order
                        ELSE <<>>
        /\ term_to_index' = IF loaded /\ vector_file # NoFile
                            THEN vector_file.term_to_index
                            ELSE EmptyDict
        /\ document_vectors' = IF loaded /\ vector_file # NoFile
                               THEN vector_file.document_vectors
                               ELSE <<>>
        /\ last' = [NoCall EXCEPT !.op = "load_index_data", !.ok = (file = NoFile \/ new.ok)]
        /\ results' = <<>>
        /\ stats' = NoStats
        /\ returned' = None
        /\ UNCHANGED <<file, saved, index_postdates, history, file_key_order, expansion_cache,
                       rebuild, vector_file>>

----------------------------------------------------------------------------
(* The specifications *)

Init ==
    /\ index = EmptyIndex
    /\ document_metadata = EmptyMetadataTable
    /\ vocabulary = {}
    /\ total_documents = 0
    /\ file = NoFile
    /\ results = <<>>
    /\ stats = NoStats
    /\ last = NoCall
    /\ passed = {}
    /\ indexed = {}
    /\ accepted_calls = 0
    /\ saved = NoFile
    /\ key_order = <<>>
    /\ file_key_order = <<>>
    /\ term_to_index = EmptyDict
    /\ document_vectors = <<>>
    /\ expansion_cache = EmptyDict
    /\ returned = None
    /\ rebuild = Idle
    /\ vector_file = NoFile
    /\ index_postdates = FALSE

Texts == SeqsUpTo(Words, MaxTextLen)

SnapshotTexts == SeqsUpTo(Words, MaxSnapshotTextLen)

Queries == SeqsUpTo(Words, MaxQueryLen)

AddDocument ==
    \E document_id \in DocIds, content \in Texts :
        /\ accepted_calls < MaxDocuments
        /\ add_document(document_id, content, MetadataOf[document_id])

GetStatistics == get_statistics

Search ==
    \E query \in Queries, top_k \in 1..MaxTopK :
        \E order \in IterationOrders(RelevantDocs(index, preprocess_text(query))) :
            search(query, top_k, order)

AddSnapshotDocument ==
    \E document_id \in DocIds, content \in SnapshotTexts :
        /\ accepted_calls < MaxSnapshotDocuments
        /\ add_document(document_id, content, MetadataOf[document_id])

SaveIndex == \E vocabulary_list \in IterationOrders(vocabulary) : save_index(vocabulary_list)

LoadIndex == \E missing \in {{}} \cup {{s} : s \in Sections} : load_index(missing)

\* the indexing pass: add_document and get_statistics
Next == AddDocument \/ GetStatistics

Spec == Init /\ [][Next]_vars

\* the indexing pass followed by boolean searches
NextSearch == AddDocument \/ Search

SpecSearch == Init /\ [][NextSearch]_vars

\* an index that is also saved to, and loaded from, its snapshot file
NextSnapshot == AddSnapshotDocument \/ SaveIndex \/ LoadIndex

SpecSnapshot == Init /\ [][NextSnapshot]_vars

\* the words of the texts and queries of the behaviours that build vectors: the
\* words of the two terms and a stopword
VectorWords == {"Search", "engines", "the"}

VectorTexts == SeqsUpTo(VectorWords, MaxVectorTextLen)

VectorQueries == SeqsUpTo(VectorWords, MaxVectorQueryLen)

AddVectorDocument ==
    \E document_id \in DocIds, content \in VectorTexts :
        /\ accepted_calls < MaxVectorDocuments
        /\ add_document(document_id, content, MetadataOf[document_id])

CalculateTfidf == \E order \in IterationOrders(vocabulary) : calculate_tfidf(order)

GetQueryVector == \E query \in VectorQueries : get_query_vector(preprocess_text(query))

\* an index whose vectors are built, and queried, between the add_document calls
NextVectors == AddVectorDocument \/ CalculateTfidf \/ GetQueryVector

SpecVectors == Init /\ [][NextVectors]_vars

EnhancedSearch ==
    \E query \in VectorQueries, top_k \in 1..MaxTopK, use_enhanced_ranking \in BOOLEAN :
        \E order \in IterationOrders(RelevantDocs(index, preprocess_text(query))) :
            enhanced_search(query, top_k, use_enhanced_ranking, order)

RankDocuments ==
    \E query \in VectorQueries, top_k \in 1..MaxTopK :
        rank_stored_documents(preprocess_text(query), top_k)

\* an index whose vectors are built and then ranked against queries
NextRanking == AddVectorDocument \/ CalculateTfidf \/ EnhancedSearch \/ RankDocuments

SpecRanking == Init /\ [][NextRanking]_vars

\* the arrays passed to calculate_similarity
SimilarityVectors == SeqsUpTo(0..MaxComponent, MaxSimilarityLen)

CalculateSimilarity == \E vector_a, vector_b \in SimilarityVectors : similarity_call(vector_a, vector_b)

NextSimilarity == CalculateSimilarity

SpecSimilarity == Init /\ [][NextSimilarity]_vars

\* the lengths of the documents whose factors are calculated: none, the shortest, one
\* below, one at and one above the ideal length of 1000
WordCounts == {0, 1, 500, 1000, 2000}

\* the metadata passed to _calculate_enhancement_factors: {} (the default of
\* document_metadata.get(doc_id, {})) and dicts with a word count, a title and a url
FactorMetadata ==
    {NoMetadata}
        \cup {[word_count |-> n, title |-> heading, url |-> address] :
                  n \in WordCounts, heading \in {"", "Search", "Engines"},
                  address \in {"", WikipediaUrl, OtherUrl}}

CalculateEnhancementFactors ==
    \E metadata \in FactorMetadata, query \in VectorQueries :
        calculate_enhancement_factors(metadata, preprocess_text(query))

NextFactors == CalculateEnhancementFactors

SpecFactors == Init /\ [][NextFactors]_vars

\* the metadata of the documents of the end-to-end search: none, a title that holds
\* the term "search" with a url of authority 0.9, a title that holds the term "engin"
RankedMetadata ==
    {NoMetadata, [title |-> "Search", url |-> WikipediaUrl],
     [title |-> "Engines", url |-> OtherUrl]}

AddRankedDocument ==
    \E document_id \in DocIds, content \in VectorTexts, metadata \in RankedMetadata :
        /\ accepted_calls < MaxVectorDocuments
        /\ add_document(document_id, content, metadata)

\* results_generator.search(final_query, top_k=top_k, use_enhanced_ranking=True)
EndToEndSearch ==
    \E query \in VectorQueries, top_k \in 1..MaxTopK :
        \E order \in IterationOrders(RelevantDocs(index, preprocess_text(query))) :
            enhanced_search(query, top_k, TRUE, order)

\* documents with titles and urls, indexed, their vectors built, and searched end to end
NextEndToEnd == AddRankedDocument \/ CalculateTfidf \/ EndToEndSearch

SpecEndToEnd == Init /\ [][NextEndToEnd]_vars

\* the steps of run_indexer.main, each enabled after the step before it: the
\* documents are added, then the index is saved, then the vectors are built, then
\* they are saved; a run may stop after any step
IndexerAdds ==
    /\ last.op \in {"init", "new_indexer_run", "add_document"}
    /\ AddRankedDocument

IndexerSavesIndex == last.op = "add_document" /\ SaveIndex

IndexerCalculatesTfidf == last.op = "save_index" /\ CalculateTfidf

IndexerSavesVectors == last.op = "calculate_tfidf" /\ save_tfidf_vectors

\* the next run of the indexer starts, after a run that ended or was interrupted, or
\* after the engine
NewIndexerRun == last.op # "init" /\ new_indexer_run

\* the web application starts and builds its EnhancedResultsGenerator
EngineStartup == last.op # "init" /\ \E missing \in {{}, {"total_documents"}} : load_index_data(missing)

\* the engine answers a query
EngineSearch == last.op \in {"load_index_data", "enhanced_search"} /\ EndToEndSearch

\* runs of the indexer, complete or interrupted, and starts of the engine that reads
\* the files they left
NextStartup ==
    \/ IndexerAdds
    \/ IndexerSavesIndex
    \/ IndexerCalculatesTfidf
    \/ IndexerSavesVectors
    \/ NewIndexerRun
    \/ EngineStartup
    \/ EngineSearch

SpecStartup == Init /\ [][NextStartup]_vars

\* count copies of a character
Repeat(char, count) == [i \in 1..count |-> char]

\* the queries passed to validate_query: a misspelled word with two candidates, one
\* whose best candidate is at similarity 0.6 exactly, a vocabulary word (also
\* capitalized), a query of a stopword, a misspelled word with one candidate and a
\* number, and the queries to reject: empty, blank, with illegal characters, and
\* (padded with spaces) at, or one past, the longest length allowed
ValidatorQueries ==
    {<<"c", "r", "a", "w", "l", "i", "n">>,
     <<"d", "z", "t", "a", "b">>,
     Word_web,
     <<"W", "e", "b", " ">>,
     Word_the \o <<" ", " ", "s", "e", "r", "c", "h", " ", "4", "2">>,
     <<>>,
     <<" ", " ">>,
     <<"a", "@", "#", "@">>,
     Word_web \o Repeat(" ", max_query_length - 3),
     Word_web \o Repeat(" ", max_query_length - 2),
     Repeat(" ", max_query_length + 1),
     <<"@">> \o Repeat(" ", max_query_length),
     <<"@">> \o Repeat(" ", max_query_length - 1)}

ValidateQuery ==
    \E query \in ValidatorQueries :
        \E order \in IterationOrders(IF rejection_code(query) = ""
                                      THEN NewTerms(clean_query(query))
                                      ELSE {}) :
            validate_query(query, order)

\* the strings suggestions are asked for: one character, the beginning of two
\* vocabulary words, a vocabulary word that begins two stored queries, a misspelled
\* word that begins a vocabulary word, and two words
SuggestionQueries ==
    {<<"s">>,
     <<"c", "r">>,
     Word_search,
     <<"S", "e", "a", "r", "c">>,
     <<"w", "e", "b", " ", "c">>}

GetEnhancedSuggestions ==
    \E query \in SuggestionQueries, max_suggestions \in 0..MaxSuggestions :
        \E order \in IterationOrders(PrefixTerms(query)) :
            get_enhanced_suggestions(query, max_suggestions, order)

\* one validator, serving validations and suggestions
NextValidator == ValidateQuery \/ GetEnhancedSuggestions

SpecValidator == Init /\ [][NextValidator]_vars

\* the requests sent to /search: without a query, with queries that are accepted (one
\* that is corrected, one that is expanded, one that is neither, one of three words,
\* one that is both corrected and expanded)
\* and with queries that are rejected (blank, with illegal characters, too long)
HandlerQueries ==
    {<<>>,
     <<"c", "r", "a", "w", "l", "i", "n">>,
     <<"d", "z", "t", "a", "b">>,
     Word_web,
     Word_the \o <<" ", " ", "s", "e", "r", "c", "h", " ", "4", "2">>,
     Word_web \o <<" ", "s", "e", "r", "c", "h">>,
     <<" ", " ">>,
     <<"a", "@", "#", "@">>,
     Word_web \o Repeat(" ", max_query_length - 2)}

SearchHandler ==
    \E query \in HandlerQueries, top_k \in 1..MaxTopK, use_spell_check \in BOOLEAN,
       use_expansion \in BOOLEAN :
        \E new_terms \in IterationOrders(IF rejection_code(query) = ""
                                          THEN NewTerms(clean_query(query))
                                          ELSE {}) :
            search_handler(query, top_k, use_spell_check, use_expansion, new_terms)

\* the application serving /search, started without an index file
NextHandler == SearchHandler

SpecHandler == Init /\ [][NextHandler]_vars

\* the words of the contents a snippet is taken from
SnippetWords ==
    {<<"a", "b", "c">>, <<"x">>, <<"A", "b", "c", "d", "e", "f", "g">>,
     <<"x", "a", "b", "c", "x">>}

\* the contents, as ' '.join(content.split()) leaves them: words with single spaces
SnippetContents ==
    {join(<<first>>) : first \in SnippetWords}
        \cup {join(<<first, second>>) : first \in SnippetWords, second \in SnippetWords}

\* a query whose term occurs in the contents, and a query without a term of 3 characters
SnippetQueries == {<<"A", "b", "c">>, <<"x", " ", "a", "b">>}

FindOptimalSnippet ==
    \E content \in SnippetContents, query \in SnippetQueries,
       max_length \in 1..MaxSnippetLength :
        find_optimal_snippet(content, query, max_length)

\* snippets taken for the results of the searches
NextSnippet == FindOptimalSnippet

SpecSnippet == Init /\ [][NextSnippet]_vars

\* the words of the snippets that are highlighted: a term in lowercase, in title form
\* and in uppercase, a word that holds it, and a word without it
HighlightWords ==
    {<<"a", "b", "c">>, <<"A", "b", "c">>, <<"A", "B", "C">>, <<"x", "a", "b", "c", "x">>,
     <<"x">>}

HighlightSnippets == {join(words) : words \in SeqsUpTo(HighlightWords, MaxHighlightWords) \ {<<>>}}

\* the term as it is typed in the query: in lowercase, in title form, in uppercase; and
\* a query without a term of 3 characters
HighlightQueries ==
    {<<"a", "b", "c">>, <<"A", "b", "c">>, <<"A", "B", "C">>, <<"x", " ", "a", "b">>}

HighlightQueryTerms ==
    \E snippet \in HighlightSnippets, query \in HighlightQueries :
        highlight_query_terms(snippet, query)

NextHighlight == HighlightQueryTerms

SpecHighlight == Init /\ [][NextHighlight]_vars

\* the contents of the documents of the served index, and the query sent to it
ServedTexts == {<<"Search">>, <<"engines">>}

ServedQuery == <<"Search">>

AddServedDocument ==
    \E document_id \in DocIds, content \in ServedTexts :
        /\ accepted_calls < MaxVectorDocuments
        /\ add_document(document_id, content, MetadataOf[document_id])

ServeSearch ==
    \E order \in IterationOrders(RelevantDocs(index, preprocess_text(ServedQuery))) :
        search(ServedQuery, MaxTopK, order)

ServeTermFrequency ==
    \E term \in Terms, document_id \in DocIds :
        /\ returned' = get_term_frequency(term, document_id)
        /\ last' = [NoCall EXCEPT !.op = "get_term_frequency", !.id = document_id,
                                  !.tokens = <<term>>]
        /\ results' = <<>>
        /\ stats' = NoStats
        /\ UNCHANGED <<state, file, saved, index_postdates, history, key_order, file_key_order, query_side>>

ServeDocumentFrequency ==
    \E term \in Terms :
        /\ returned' = get_document_frequency(term)
        /\ last' = [NoCall EXCEPT !.op = "get_document_frequency", !.tokens = <<term>>]
        /\ results' = <<>>
        /\ stats' = NoStats
        /\ UNCHANGED <<state, file, saved, index_postdates, history, key_order, file_key_order, query_side>>

ServeQueryVector == get_query_vector(preprocess_text(ServedQuery))

ServeEnhancedSearch ==
    \E order \in IterationOrders(RelevantDocs(index, preprocess_text(ServedQuery))) :
        enhanced_search(ServedQuery, MaxTopK, TRUE, order)

ServeValidateQuery ==
    \E query \in {Word_web, <<"a", "@", "#", "@">>} :
        \E order \in IterationOrders(IF rejection_code(query) = ""
                                      THEN NewTerms(clean_query(query))
                                      ELSE {}) :
            validate_query(query, order)

ServeSuggestions ==
    \E order \in IterationOrders(PrefixTerms(<<"c", "r">>)) :
        get_enhanced_suggestions(<<"c", "r">>, MaxSuggestions, order)

\* an index that is built and then queried through every query-time operation
NextQueries ==
    \/ AddServedDocument
    \/ CalculateTfidf
    \/ ServeSearch
    \/ ServeTermFrequency
    \/ ServeDocumentFrequency
    \/ GetStatistics
    \/ ServeQueryVector
    \/ ServeEnhancedSearch
    \/ ServeValidateQuery
    \/ ServeSuggestions

SpecQueries == Init /\ [][NextQueries]_vars

\* the single writer: no other call of the indexing pass while a rebuild is running
AddRebuildDocument == rebuild.pc = "idle" /\ AddServedDocument

SaveBeforeRebuild == rebuild.pc = "idle" /\ SaveIndex

BeginLoadIndex == \E missing \in {{}, {"vocabulary"}} : begin_load_index(missing)

LoadIndexStep == load_index_step

BeginCalculateTfidf == \E order \in IterationOrders(vocabulary) : begin_calculate_tfidf(order)

CalculateTfidfStep == calculate_tfidf_step

\* an index that is rebuilt, by load_index and by calculate_tfidf, while readers
\* (get_statistics, get_query_vector) run between the statements of the rebuild
NextRebuild ==
    \/ AddRebuildDocument
    \/ SaveBeforeRebuild
    \/ BeginLoadIndex
    \/ LoadIndexStep
    \/ BeginCalculateTfidf
    \/ CalculateTfidfStep
    \/ GetStatistics
    \/ ServeQueryVector

SpecRebuild == Init /\ [][NextRebuild]_vars

----------------------------------------------------------------------------
(* Helpers of the properties *)

\* the documents that hold a posting for every term of query_terms
ContainingAll(query_terms) ==
    {d \in DocIds : \A i \in 1..Len(query_terms) :
        /\ query_terms[i] \in DOMAIN index
        /\ d \in DOMAIN index[query_terms[i]]}

ReturnedIds == {results[i].document_id : i \in 1..Len(results)}

\* the place of a document id in ascending id order
IdRank(d) == CHOOSE i \in 1..Len(DocIdOrder) : DocIdOrder[i] = d

\* the one arrangement of the documents S by descending score, equal scores by
\* ascending document id
RankedOrder(S, query_terms) ==
    CHOOSE f \in IterationOrders(S) :
        \A i, j \in 1..Cardinality(S) :
            i < j => \/ ScoreOf(query_terms, f[i]) > ScoreOf(query_terms, f[j])
                     \/ /\ ScoreOf(query_terms, f[i]) = ScoreOf(query_terms, f[j])
                        /\ IdRank(f[i]) < IdRank(f[j])

\* the number of times term occurs in tokens
Occurrences(term, tokens) == Cardinality({i \in 1..Len(tokens) : tokens[i] = term})

\* the sum of word_count over the documents of the metadata table
TotalWordCount ==
    SumOver([d \in DOMAIN document_metadata |-> document_metadata[d].word_count],
            DOMAIN document_metadata)

\* the number of (term, document) postings
PostingCount == Cardinality({<<t, d>> \in Terms \X DocIds : t \in DOMAIN index /\ d \in DOMAIN index[t]})

----------------------------------------------------------------------------
(* The properties *)

\* C1: search returns exactly the documents that hold a posting for every
\* normalized query term (all of them when top_k allows): every returned document
\* contains all the query terms, and the result is empty when a query term is
\* absent from the index or the query normalizes to no terms.
C1_SearchReturnsDocumentsWithAllTerms ==
    last.op = "search" =>
        /\ ReturnedIds \subseteq ContainingAll(last.tokens)
        /\ last.tokens = <<>> => results = <<>>
        /\ (\E i \in 1..Len(last.tokens) : last.tokens[i] \notin DOMAIN index) => results = <<>>
        /\ Cardinality(ContainingAll(last.tokens)) <= last.top_k /\ last.tokens # <<>>
              => ReturnedIds = ContainingAll(last.tokens)

\* C2: search scores each surviving document by the sum of the term frequencies of
\* the query terms and returns the first min(top_k, number of matches) entries of
\* the order "descending score, equal scores by ascending document id".
C2_SearchOrderedByScoreThenId ==
    last.op = "search" /\ last.tokens # <<>> =>
        LET matches == RelevantDocs(index, last.tokens)
            ranked  == RankedOrder(matches, last.tokens)
            n       == IF Cardinality(matches) < last.top_k THEN Cardinality(matches)
                       ELSE last.top_k
        IN  /\ Len(results) = n
            /\ \A i \in 1..Len(results) :
                  /\ results[i].document_id = ranked[i]
                  /\ results[i].score = ScoreOf(last.tokens, ranked[i])

\* C3: after add_document(id, text2) on an index that already holds id, the
\* postings under id reflect only text2: for every term t, term_frequency(t, id) is
\* the number of occurrences of t in normalize(text2).
C3_ReAddReplacesPostings ==
    last.op = "add_document" /\ last.held /\ last.tokens # <<>> =>
        \A t \in Terms : get_term_frequency(t, last.id) = Occurrences(t, last.tokens)

\* C4: a term is in the vocabulary if and only if its posting list is non-empty,
\* in every state reached by add_document and load_index calls.
C4_VocabularyIffPostings ==
    \A t \in Terms : t \in vocabulary <=> (t \in DOMAIN index /\ DOMAIN index[t] # {})

\* C5 as stated: the key set of the metadata table is the set of document ids ever
\* passed to add_document.
C5_MetadataKeysArePassedIds == DOMAIN document_metadata = passed

\* C5 as amended: the key set of the metadata table is the set of document ids
\* passed to the add_document calls whose text normalized to at least one term.
C5_MetadataKeysAreIndexedIds == DOMAIN document_metadata = indexed

\* a document id was passed with a text without terms and never indexed, another was
C5_Witness == indexed # {} /\ passed # indexed

\* C6: add_document with an empty text, or a text that normalizes to no terms,
\* changes neither the postings, nor the vocabulary, nor the metadata, nor
\* total_documents.
C6_SkippedAddChangesNothing ==
    [][last'.op = "add_document" /\ last'.tokens = <<>> => UNCHANGED state]_vars

\* a text with words but no terms was passed to add_document on a non-empty index
C6_Witness ==
    /\ last.op = "add_document"
    /\ last.tokens = <<>>
    /\ ~last.blank
    /\ total_documents > 0

\* C7: total_documents grows by exactly 1 on every add_document call that is not
\* skipped, a re-added id included, and is unchanged by a skipped call; so it equals
\* the number of calls not skipped and is at least the number of ids in the
\* metadata table.
C7_TotalCountsEveryIndexingCall ==
    /\ [](/\ total_documents = accepted_calls
          /\ total_documents >= Cardinality(DOMAIN document_metadata))
    /\ [][last'.op = "add_document" =>
            total_documents' = total_documents + (IF last'.tokens = <<>> THEN 0 ELSE 1)]_vars

\* an id was added twice: two documents counted, one held
C7_Witness ==
    /\ last.op = "add_document"
    /\ last.held
    /\ total_documents = 2
    /\ Cardinality(DOMAIN document_metadata) = 1

\* C8: get_statistics reports the mean of word_count over the documents held (0 when
\* there are none), the number of (term, document) postings and the number of terms.
C8_StatisticsAverageOverHeldDocuments ==
    last.op = "get_statistics" =>
        LET held == Cardinality(DOMAIN document_metadata)
            avg  == stats.average_document_length
        IN  /\ IF held = 0 THEN avg[1] = 0 ELSE avg[1] * held = TotalWordCount * avg[2]
            /\ stats.total_terms = PostingCount
            /\ stats.vocabulary_size = Cardinality(vocabulary)

\* C9: load_index of the snapshot save_index wrote leaves exactly the saved
\* postings, metadata, vocabulary and total_documents in the instance, whatever it
\* held before.
C9_LoadRestoresSavedState ==
    last.op = "load_index" /\ last.ok =>
        StateRecord(index, document_metadata, vocabulary, total_documents) = saved

\* a snapshot of a non-empty index was loaded into an instance that held something else
C9_Witness ==
    /\ last.op = "load_index"
    /\ last.ok
    /\ last.replaced
    /\ saved.total_documents > 0

\* C10: a load_index that fails (a snapshot lacking a section) leaves the postings,
\* the metadata, the vocabulary and total_documents as they were.
C10_FailedLoadChangesNothing ==
    [][last'.op = "load_index" /\ ~last'.ok => UNCHANGED state]_vars

\* C11: whatever the interleaving of add_document, calculate_tfidf and
\* get_query_vector, the vector get_query_vector returns has the length of every
\* stored document vector, and holds each query term at the dimension that the
\* term_to_index map of the last build gives it (and nothing anywhere else).
C11_QueryVectorMatchesLastBuild ==
    last.op = "get_query_vector" =>
        /\ returned.ok
        /\ \A i \in 1..Len(document_vectors) :
              Len(returned.vector) = Len(document_vectors[i].vector)
        /\ \A t \in SetOf(last.tokens) \cap DOMAIN term_to_index :
              /\ term_to_index[t] + 1 \in 1..Len(returned.vector)
              /\ returned.vector[term_to_index[t] + 1] > 0
        /\ \A i \in 1..Len(returned.vector) :
              returned.vector[i] > 0 =>
                  \E t \in SetOf(last.tokens) \cap DOMAIN term_to_index : term_to_index[t] = i - 1

\* C12: the end-to-end search reports its results with ranks 1..n, in order of
\* non-increasing composite score, results of equal composite score being in
\* document-id order.
C12_ResultsRankedByCompositeThenId ==
    last.op = "enhanced_search" =>
        /\ \A i \in 1..Len(returned) : returned[i].rank = i
        /\ \A i, j \in 1..Len(returned) :
              i < j => \/ returned[i].score > returned[j].score
                       \/ /\ returned[i].score = returned[j].score
                          /\ IdRank(returned[i].document_id) < IdRank(returned[j].document_id)

\* the similarity rank_documents computes for the i-th stored document
StoredSimilarity(query_terms, i) ==
    calculate_similarity(QueryVector(query_terms).vector, document_vectors[i].vector)

\* C13: rank_documents computes a similarity for every supplied document and
\* returns the first top_k entries of the order "descending similarity, equal
\* similarities by ascending document id".
C13_RankDocumentsBySimilarityThenId ==
    last.op = "rank_documents" /\ QueryVector(last.tokens).ok =>
        LET n      == Len(document_vectors)
            ranked == CHOOSE f \in IterationOrders(1..n) :
                          \A i, j \in 1..n :
                              i < j => \/ StoredSimilarity(last.tokens, f[i])
                                            > StoredSimilarity(last.tokens, f[j])
                                       \/ /\ StoredSimilarity(last.tokens, f[i])
                                               = StoredSimilarity(last.tokens, f[j])
                                          /\ IdRank(document_vectors[f[i]].document_id)
                                               < IdRank(document_vectors[f[j]].document_id)
        IN  /\ Len(returned) = Min(last.top_k, n)
            /\ \A i \in 1..Len(returned) :
                  /\ returned[i].document_id = document_vectors[ranked[i]].document_id
                  /\ returned[i].similarity_score = StoredSimilarity(last.tokens, ranked[i])

\* the characters of a query that are outside the allow-list
IllegalCharacters(query) == {query[i] : i \in {j \in 1..Len(query) : ~IsAllowed(query[j])}}

\* C14: validate_query rejects a query exactly when it is blank, longer than 200
\* characters or holds a character outside the allow-list, with one reason code
\* (EMPTY_QUERY, QUERY_TOO_LONG, INVALID_CHARACTERS: the first of the three reasons
\* that applies) and without cleaning, spell-checking or expanding it; the list
\* reported with INVALID_CHARACTERS holds each offending character exactly once.
C14_RejectionHasOneReasonCode ==
    /\ [](last.op = "validate_query" =>
            LET query == last.tokens
            IN  /\ returned.valid <=> ~(\/ IsBlank(query)
                                         \/ Len(query) > 200
                                         \/ IllegalCharacters(query) # {})
                /\ ~returned.valid =>
                      /\ DOMAIN returned \subseteq {"valid", "error_code", "invalid_chars"}
                      /\ returned.error_code =
                            (IF IsBlank(query) THEN "EMPTY_QUERY"
                             ELSE IF Len(query) > 200 THEN "QUERY_TOO_LONG"
                             ELSE "INVALID_CHARACTERS")
                      /\ returned.error_code = "INVALID_CHARACTERS" =>
                            /\ SetOf(returned.invalid_chars) = IllegalCharacters(query)
                            /\ Len(returned.invalid_chars) = Cardinality(IllegalCharacters(query)))
    /\ [][last'.op = "validate_query" /\ ~returned'.valid => UNCHANGED expansion_cache]_vars

\* a query with '@' twice and '#' once was rejected, after other queries were accepted
C14_Witness ==
    /\ last.op = "validate_query"
    /\ ~returned.valid
    /\ returned.error_code = "INVALID_CHARACTERS"
    /\ returned.invalid_chars = <<"@", "#">>
    /\ expansion_cache # EmptyDict

\* C15: when the /search handler is given a non-empty query that validate_query
\* rejects, its response carries the reason code of the rejection and no results, and
\* is not the generic INTERNAL_ERROR response.
C15_HandlerReportsValidationFailure ==
    last.op = "search_handler" /\ last.tokens # <<>> /\ rejection_code(last.tokens) # "" =>
        /\ "error_code" \in DOMAIN returned
        /\ returned.error_code = rejection_code(last.tokens)
        /\ returned.error_code # "INTERNAL_ERROR"
        /\ "results" \notin DOMAIN returned

\* similarity(word, a) >= similarity(word, b)
AtLeastAsSimilar(word, a, b) ==
    LET sa == similarity(word, a)
        sb == similarity(word, b)
    IN  sa[1] * sb[2] >= sb[1] * sa[2]

\* 1 - edit_distance / max(len) > 0.6
ClearsThreshold(word, vocab_word) ==
    5 * (Max(Len(word), Len(vocab_word)) - edit_distance(word, vocab_word))
        > 3 * Max(Len(word), Len(vocab_word))

\* C16: spell-check changes a token only if it is not in the vocabulary, not a
\* stopword and not a number, and only to a vocabulary word whose similarity
\* 1 - edit_distance/max(len) is above 0.6 and the highest of all vocabulary words; a
\* token for which no vocabulary word clears the threshold is unchanged.  Every
\* correction record has corrected # original and corrected in the vocabulary, and
\* has_corrections is true exactly when there is a record.
C16_SpellCheckCorrectsToBestCandidate ==
    last.op = "validate_query" /\ returned.valid =>
        LET words     == tokenize_query(returned.cleaned_query)
            corrected == tokenize_query(returned.corrected_query)
            records   == returned.spelling.corrections
        IN  /\ Len(corrected) = Len(words)
            /\ \A i \in 1..Len(words) :
                  /\ corrected[i] # words[i] =>
                        /\ words[i] \notin spell_vocabulary
                        /\ words[i] \notin validator_stop_words
                        /\ ~isdigit(words[i])
                        /\ corrected[i] \in spell_vocabulary
                        /\ ClearsThreshold(words[i], corrected[i])
                        /\ \A v \in spell_vocabulary : AtLeastAsSimilar(words[i], corrected[i], v)
                  /\ (\A v \in spell_vocabulary : ~ClearsThreshold(words[i], v)) =>
                        corrected[i] = words[i]
            /\ \A k \in 1..Len(records) :
                  /\ records[k].corrected # records[k].original
                  /\ records[k].corrected \in spell_vocabulary
            /\ {<<records[k].original, records[k].corrected>> : k \in 1..Len(records)}
                  = {<<words[i], corrected[i]>> : i \in {j \in 1..Len(words) : corrected[j] # words[j]}}
            /\ returned.has_corrections <=> Len(records) > 0
            /\ returned.spelling.has_corrections = returned.has_corrections

\* a word with two candidates above the threshold was corrected to the closer one
C16_Witness ==
    /\ last.op = "validate_query"
    /\ returned.valid
    /\ returned.has_corrections
    /\ returned.cleaned_query = <<"c", "r", "a", "w", "l", "i", "n">>
    /\ returned.corrected_query = Word_crawling
    /\ ClearsThreshold(returned.cleaned_query, Word_crawler)

\* the scores of the sources that offer a string as a suggestion for a query
OfferedScores(query, string) ==
    {score \in {90, 80, 70, 60} :
        \/ score = 90 /\ string \in spell_vocabulary
                      /\ startswith(string, lower(query)) /\ Len(string) > Len(query)
        \/ score = 80 /\ string \in SetOf(common_queries)
                      /\ Contains(lower(string), lower(query)) /\ lower(string) # lower(query)
        \/ score = 70 /\ string \in SetOf(search_history)
                      /\ Contains(lower(string), lower(query)) /\ lower(string) # lower(query)
        \/ score = 60 /\ Len(tokenize_query(query)) = 1 /\ string # query
                      /\ string \in spell_vocabulary
                      /\ ClearsThreshold(lower(query), string)
                      /\ \A v \in spell_vocabulary : AtLeastAsSimilar(query, string, v)}

\* C17: get_enhanced_suggestions(prefix, limit) returns a list in which no two
\* entries have the same suggestion string, in non-increasing order of score
\* (vocabulary 0.9, common query 0.8, history 0.7, spelling correction 0.6), of at
\* most limit entries; each entry has the highest of the scores of the sources that
\* offer its string; an input of fewer than 2 characters gives the empty list.
C17_SuggestionsUniqueSortedTruncated ==
    last.op = "get_enhanced_suggestions" =>
        /\ Len(returned) <= last.top_k
        /\ \A i, j \in 1..Len(returned) :
              i < j => /\ returned[i].suggestion # returned[j].suggestion
                       /\ returned[i].score >= returned[j].score
        /\ \A i \in 1..Len(returned) :
              /\ returned[i].score = (CASE returned[i].type = "vocabulary" -> 90
                                        [] returned[i].type = "common_query" -> 80
                                        [] returned[i].type = "history" -> 70
                                        [] returned[i].type = "spelling_correction" -> 60)
              /\ returned[i].score \in OfferedScores(last.tokens, returned[i].suggestion)
              /\ \A score \in OfferedScores(last.tokens, returned[i].suggestion) :
                    score <= returned[i].score
        /\ Len(last.tokens) < 2 => returned = <<>>

\* for 'Searc' and the limit 2, 'search' (a vocabulary word and the spelling
\* correction) and 'search engine' (a common query and a query of the history) are
\* each returned once, with the higher score
C17_Witness ==
    /\ last.op = "get_enhanced_suggestions"
    /\ last.top_k = 2
    /\ Len(returned) = 2
    /\ returned[1].suggestion = Word_search
    /\ OfferedScores(last.tokens, returned[1].suggestion) = {90, 60}
    /\ returned[2].suggestion = join(<<Word_search, Word_engine>>)
    /\ OfferedScores(last.tokens, returned[2].suggestion) = {80, 70}

\* the positions (from 0) at which a window occurs in a content between whitespace
\* boundaries or the ends of the content
BoundedOccurrences(content, window) ==
    {p \in 0..(Len(content) - Len(window)) :
        /\ \A i \in 1..Len(window) : content[p + i] = window[i]
        /\ p = 0 \/ IsSpace(content[p])
        /\ p + Len(window) = Len(content) \/ IsSpace(content[p + Len(window) + 1])}

\* C18: when a query term of more than 2 characters occurs in the content, the
\* snippet window (without the ellipsis) is at most max_length characters long,
\* holds an occurrence of a query term, and begins and ends at a whitespace boundary
\* or at an end of the content.
C18_SnippetWindowWithinMaxLength ==
    last.op = "find_optimal_snippet" =>
        LET terms == snippet_query_terms(last.tokens)
        IN  (\E i \in 1..Len(terms) : Contains(lower(last.content), terms[i])) =>
                /\ Len(returned.window) <= last.top_k
                /\ \E i \in 1..Len(terms) : Contains(lower(returned.window), terms[i])
                /\ BoundedOccurrences(last.content, returned.window) # {}

\* the query-time operations
QueryOperations ==
    {"search", "get_term_frequency", "get_document_frequency", "get_statistics",
     "get_query_vector", "enhanced_search", "validate_query", "get_enhanced_suggestions"}

\* C19: no query-time operation (search, get_term_frequency, get_document_frequency,
\* get_statistics, get_query_vector, get_document_scores and the search of the
\* results generator, validate_query, get_enhanced_suggestions) changes the state
\* shared between the requests: the index, the vocabulary, the metadata, the count of
\* documents, the vectors and the state of the validator.
C19_QueriesLeaveSharedStateUnchanged ==
    [][last'.op \in QueryOperations =>
          UNCHANGED <<index, document_metadata, vocabulary, total_documents,
                      term_to_index, document_vectors, expansion_cache, vector_file>>]_vars

\* the state load_index leaves when it returns: the four sections of the snapshot
NewSnapshot(index_data) ==
    StateRecord(index_data["index"], index_data["document_metadata"],
                SetOf(index_data["vocabulary"]), index_data["total_documents"])

\* C20: at every step of a rebuild, what a reader sees belongs to one snapshot: while
\* load_index runs, the postings, the metadata, the vocabulary and total_documents
\* are all those of before the call or all those of the file; while calculate_tfidf
\* runs, term_to_index and the document vectors are all those of before the call or
\* all those of the finished build.
C20_ReaderSeesOneSnapshot ==
    /\ rebuild.pc = "load_index" /\ Sections \subseteq DOMAIN rebuild.index_data =>
          StateRecord(index, document_metadata, vocabulary, total_documents)
              \in {rebuild.old, NewSnapshot(rebuild.index_data)}
    /\ rebuild.pc = "calculate_tfidf" =>
          VectorRecord(term_to_index, document_vectors) \in {rebuild.old, rebuild.new}

\* the try block of search fails on the state and the arguments of the last call: a
\* query vector or a stored vector of the wrong dimension, or, without vectors, a
\* boolean search that found documents to re-rank
SearchFails ==
    IF document_vectors # <<>>
    THEN \/ ~QueryVector(last.tokens).ok
         \/ ~get_document_scores(QueryVector(last.tokens).vector).ok
    ELSE last.use_enhanced_ranking /\ RelevantDocs(index, last.tokens) # {}

SimilarityTo(doc_id) ==
    LET i == CHOOSE j \in 1..Len(document_vectors) : document_vectors[j].document_id = doc_id
    IN  Cosine(QueryVector(last.tokens).vector, document_vectors[i].vector)

IsZeroVector(vector) == \A i \in 1..Len(vector) : vector[i] = 0

\* C23: for two vectors of the same length of which one has norm zero,
\* calculate_similarity returns 0.0 and raises nothing.
C23_ZeroNormGivesZeroSimilarity ==
    /\ last.op = "calculate_similarity"
    /\ Len(last.vector_a) = Len(last.vector_b)
    /\ IsZeroVector(last.vector_a) \/ IsZeroVector(last.vector_b)
    => last.ok /\ returned = 0

\* a zero vector compared with a vector that is not zero, of the same length
C23_Witness ==
    /\ last.op = "calculate_similarity"
    /\ Len(last.vector_a) = MaxSimilarityLen
    /\ Len(last.vector_b) = MaxSimilarityLen
    /\ ~IsZeroVector(last.vector_a)
    /\ IsZeroVector(last.vector_b)
    /\ returned = 0

\* C24: a search ranked over the stored vectors returns only documents that hold a
\* term of the query and whose similarity to the query is not zero.
C24_RankedSearchReturnsOnlyMatches ==
    last.op = "enhanced_search" /\ document_vectors # <<>> =>
        \A i \in 1..Len(returned) :
            /\ \E t \in SetOf(last.tokens) :
                  t \in DOMAIN index /\ returned[i].document_id \in DOMAIN index[t]
            /\ SimilarityTo(returned[i].document_id) > 0

\* C25: when the handler has used both the spell check and the expansion, the query
\* it hands to the search holds the corrected form of every corrected word and none
\* of the misspelled words that were corrected.
C25_FinalQueryExpandsCorrectedQuery ==
    /\ last.op = "search_handler"
    /\ returned.status = 200
    /\ returned.spell_check_used
    /\ returned.query_expansion_used
    => LET corrections == enhanced_spell_check(returned.cleaned_query).corrections
           final_words == SetOf(split(returned.processed_query))
       IN  \A i \in 1..Len(corrections) :
               /\ corrections[i].corrected \in final_words
               /\ corrections[i].original \notin final_words

\* C26: the length factor of a document of L tokens is min(L/1000, 1000/L) when
\* L > 0, and 0 when the word count is missing or zero (in thousandths).
C26_LengthFactor ==
    last.op = "calculate_enhancement_factors" =>
        LET L == Get(last.metadata, "word_count", 0)
        IN  returned.document_length =
                IF L > 0
                THEN (IF L * L <= 1000000 THEN L ELSE 1000000 \div L)
                ELSE 0

\* the positions (from 0) just after the occurrences of a window in a content
WindowEnds(content, window) ==
    {p + Len(window) : p \in {q \in 0..(Len(content) - Len(window)) :
                                 \A i \in 1..Len(window) : content[q + i] = window[i]}}

\* C27: a snippet that holds a query term is followed by an ellipsis if and only if
\* its window ends before the end of the content: a window that reaches the end of the
\* content has no ellipsis, wherever it starts.
C27_EllipsisIffWindowEndsEarly ==
    last.op = "find_optimal_snippet" =>
        LET terms == snippet_query_terms(last.tokens)
            ends  == WindowEnds(last.content, returned.window)
        IN  (\E i \in 1..Len(terms) : Contains(lower(last.content), terms[i])) /\ ends # {} =>
                /\ (\A e \in ends : e = Len(last.content)) => ~returned.ellipsis
                /\ (\A e \in ends : e < Len(last.content)) => returned.ellipsis

\* a text in which every occurrence of the term, whatever its case, is wrapped in the
\* marker once, and nothing else is
RECURSIVE WrappedOnce(_, _)
WrappedOnce(chars, term) ==
    IF Len(chars) < Len(term) THEN chars
    ELSE IF startswith(lower(chars), lower(term))
         THEN Marked(SubSeq(chars, 1, Len(term)))
                  \o WrappedOnce(SubSeq(chars, Len(term) + 1, Len(chars)), term)
         ELSE <<Head(chars)>> \o WrappedOnce(Tail(chars), term)

\* C28: in the highlighted snippet every occurrence, in any case, of the query term of
\* more than 2 characters is wrapped in the marker exactly once, and no other text is
\* wrapped (a query without such a term leaves the snippet as it is).
C28_EveryOccurrenceWrappedOnce ==
    last.op = "highlight_query_terms" =>
        LET terms == highlight_query_terms_of(last.tokens)
        IN  /\ terms = <<>> => returned = last.content
            /\ Len(terms) = 1 => returned = WrappedOnce(last.content, terms[1])

\* C29: the engine never answers a query with a vector snapshot older than the index
\* snapshot it loaded: when the snapshot file of the index was written after the
\* vector file (an indexer run saved the index and stopped before it saved the
\* vectors), the engine that started from these files ranks without the vectors.
C29_StaleVectorsNotUsed ==
    (last.op = "enhanced_search" /\ index_postdates) => document_vectors = <<>>

\* C30: when an index is loaded and no TF-IDF vectors are available, the search of
\* the engine, with its default enhanced ranking, falls back to the boolean search
\* and returns a list that is not empty whenever the boolean search finds a document
\* that holds the terms of the query.
C30_FallbackReturnsBooleanMatches ==
    (/\ last.op = "enhanced_search"
     /\ last.use_enhanced_ranking
     /\ total_documents > 0
     /\ document_vectors = <<>>
     /\ last.tokens # <<>>
     /\ RelevantDocs(index, last.tokens) # {}) => returned # <<>>

====
